---- MODULE Spec2Model ----
(***************************************************************************)
(* Model of downmark's adaptive retrieval and rendering pipeline:          *)
(*   - the renderer registry and its URL pattern matcher                   *)
(*     (src/src/renderer-registry.ts),                                     *)
(*   - the shared browser and getPageData (browser.ts),                    *)
(*   - smartFetch / fetchPageData (fetcher.ts, page-fetcher.ts),           *)
(*   - the request handlers of server.tsx.                                 *)
(* Strings are TLA+ strings; a character is a string of length 1.          *)
(***************************************************************************)
EXTENDS Integers, Sequences, FiniteSets, TLC

VARIABLES
    renderers,        \* RendererRegistry.renderers: sequence of renderer descriptors
    regOrder,         \* history: names in the order register() was called
    selUrl,           \* argument of the last selectRenderer call ("" = none yet)
    selected,         \* name of the renderer the last selectRenderer call returned
    selPair,          \* history: <<i, j>> of the (renderer, pattern) pair that matched
    browserInstance,  \* browser.ts: the shared browser, 0 = null, else a process id
    browsers,         \* the browser processes puppeteer.launch was asked for, by id
    pandocAvailable,  \* server.tsx: result of the startup health check
    pc,               \* per request: the await it is suspended at
    req,              \* per request: route, target URL, options, renderer override
    lw,               \* per request: how the lightweight HTTP attempt settled
    call,             \* per request: the getPageData invocation in progress
    stats,            \* per request, history: counts of the I/O it has caused
    result,           \* per request: what the fetch returned or threw
    resp,             \* per request: the HTTP response of the handler
    exited,           \* process.exit was called
    sigs,             \* the termination-signal handlers that have been started
    closeLog,         \* history: the browser ids browserInstance.close() was called on
    ai,               \* the AIRenderer.process call in progress
    match,            \* the last matchesPattern call: its arguments and its result
    img,              \* the last transformImagesToAbsolute call on an <img> element
    css,              \* pageData.cssInfo.extractedCSS by lines, and the scoped CSS
    render,           \* the last renderer.process call: pageData before and after it
    users,            \* auth.ts: the users map, by username
    sessions,         \* auth.ts: the sessions map, by session id
    challenges,       \* auth.ts: the challenges map, by username (0 = no entry)
    now,              \* Date.now(), in ticks
    issued,           \* history: when each session id was created, and whether logout deleted it
    known,            \* history: the challenges each client has received from the server
    authOut,          \* the last auth-related request and its outcome
    link,             \* the last transformLinksToHtmx call on an <a href> element
    ui                \* frontend.tsx: the navigation state of ConverterApp

regVars == <<renderers, regOrder, selUrl, selected, selPair>>
pipeVars == <<browserInstance, browsers, pandocAvailable, pc, req, lw, call, stats, result, resp>>
shutVars == <<exited, sigs, closeLog>>
contentVars == <<ai, match, img, css>>
authVars == <<users, sessions, challenges, now, issued, known, authOut>>
appVars == <<render, authVars, link, ui>>
vars == <<renderers, regOrder, selUrl, selected, selPair,
          browserInstance, browsers, pandocAvailable, pc, req, lw, call, stats, result, resp,
          exited, sigs, closeLog, ai, match, img, css, render,
         users, sessions, challenges, now, issued, known, authOut, link, ui>>

----------------------------------------------------------------------------
(* String helpers: the JavaScript String methods the code uses.            *)

\* String.prototype.toLowerCase, character by character
LowerOf ==
    [c \in {"A","B","C","D","E","F","G","H","I","J","K","L","M",
             "N","O","P","Q","R","S","T","U","V","W","X","Y","Z"} |->
        CASE c = "A" -> "a" [] c = "B" -> "b" [] c = "C" -> "c" [] c = "D" -> "d"
          [] c = "E" -> "e" [] c = "F" -> "f" [] c = "G" -> "g" [] c = "H" -> "h"
          [] c = "I" -> "i" [] c = "J" -> "j" [] c = "K" -> "k" [] c = "L" -> "l"
          [] c = "M" -> "m" [] c = "N" -> "n" [] c = "O" -> "o" [] c = "P" -> "p"
          [] c = "Q" -> "q" [] c = "R" -> "r" [] c = "S" -> "s" [] c = "T" -> "t"
          [] c = "U" -> "u" [] c = "V" -> "v" [] c = "W" -> "w" [] c = "X" -> "x"
          [] c = "Y" -> "y" [] c = "Z" -> "z"]

LowerChar(c) == IF c \in DOMAIN LowerOf THEN LowerOf[c] ELSE c

RECURSIVE toLowerCase(_)
toLowerCase(s) ==
    IF Len(s) = 0 THEN ""
    ELSE LowerChar(SubSeq(s, 1, 1)) \o toLowerCase(SubSeq(s, 2, Len(s)))

\* s.startsWith(p)
startsWith(s, p) == Len(p) <= Len(s) /\ SubSeq(s, 1, Len(p)) = p

\* s.endsWith(p)
endsWith(s, p) == Len(p) <= Len(s) /\ SubSeq(s, Len(s) - Len(p) + 1, Len(s)) = p

\* s.indexOf(p) scanning from position i (1-based); 0 when p does not occur
RECURSIVE indexFrom(_, _, _)
indexFrom(s, p, i) ==
    IF i + Len(p) - 1 > Len(s) THEN 0
    ELSE IF SubSeq(s, i, i + Len(p) - 1) = p THEN i
    ELSE indexFrom(s, p, i + 1)

indexOf(s, p) == indexFrom(s, p, 1)

\* s.includes(p)
includes(s, p) == indexOf(s, p) # 0

\* a slice(0, -n) that drops nothing
sliceEndNothing(s, n) == s

\* s.slice(0, -n)
sliceEnd(s, n) == IF n >= Len(s) THEN "" ELSE SubSeq(s, 1, Len(s) - n)

\* s.slice(n)
sliceFrom(s, n) == IF n >= Len(s) THEN "" ELSE SubSeq(s, n + 1, Len(s))

\* the whole hostname in place of its first label
firstLabelWholeHost(s) == s

\* s.split(".")[0]
firstLabel(s) ==
    LET dot == indexOf(s, ".") IN IF dot # 0 THEN SubSeq(s, 1, dot - 1) ELSE s

----------------------------------------------------------------------------
(* new URL(url): the part of the WHATWG parser the model's URLs exercise.   *)
(* A URL parses iff it is scheme "://" host [path] with a non-empty host;   *)
(* the hostname is lower-cased, the pathname defaults to "/".               *)

AfterScheme(url) == sliceFrom(url, indexOf(url, "://") + 2)

UrlParses(url) ==
    /\ indexOf(url, "://") > 1
    /\ Len(AfterScheme(url)) > 0
    /\ ~ startsWith(AfterScheme(url), "/")
    /\ ~ includes(url, " ")

UrlHostname(url) ==
    LET rest  == AfterScheme(url)
        slash == indexOf(rest, "/")
    IN toLowerCase(IF slash # 0 THEN SubSeq(rest, 1, slash - 1) ELSE rest)

UrlPathname(url) ==
    LET rest  == AfterScheme(url)
        slash == indexOf(rest, "/")
    IN IF slash # 0 THEN sliceFrom(rest, slash - 1) ELSE "/"

----------------------------------------------------------------------------
(* renderer-registry.ts                                                     *)

\* a matcher that tests the "*" wildcard before it parses the URL
matchesPatternStarFirst(url, pattern) ==
    IF pattern = "*" THEN TRUE
    ELSE IF ~ UrlParses(url) THEN FALSE                       \* catch: invalid URL
    ELSE
      LET hostname == toLowerCase(UrlHostname(url))
          pathname == toLowerCase(UrlPathname(url))
          fullPath == hostname \o pathname
          patternLower == toLowerCase(pattern)
      IN  IF pattern = "*" THEN TRUE
          ELSE IF includes(pattern, "/") THEN
               IF fullPath = patternLower THEN TRUE
               ELSE IF endsWith(patternLower, "/*")
                    THEN startsWith(fullPath, sliceEnd(patternLower, 2))
                    ELSE FALSE
          ELSE IF hostname = patternLower THEN TRUE
          ELSE IF startsWith(pattern, "*.")
               THEN endsWith(hostname, toLowerCase(sliceFrom(pattern, 1)))
          ELSE IF endsWith(pattern, ".*")
               THEN firstLabel(hostname) = toLowerCase(sliceEnd(pattern, 2))
          ELSE FALSE

\* matchesPattern(url, pattern)
matchesPattern(url, pattern) ==
    IF ~ UrlParses(url) THEN FALSE                       \* catch: invalid URL
    ELSE
      LET hostname == toLowerCase(UrlHostname(url))
          pathname == toLowerCase(UrlPathname(url))
          fullPath == hostname \o pathname
          patternLower == toLowerCase(pattern)
      IN  IF pattern = "*" THEN TRUE
          ELSE IF includes(pattern, "/") THEN
               IF fullPath = patternLower THEN TRUE
               ELSE IF endsWith(patternLower, "/*")
                    THEN startsWith(fullPath, sliceEnd(patternLower, 2))
                    ELSE FALSE
          ELSE IF hostname = patternLower THEN TRUE
          ELSE IF startsWith(pattern, "*.")
               THEN endsWith(hostname, toLowerCase(sliceFrom(pattern, 1)))
          ELSE IF endsWith(pattern, ".*")
               THEN firstLabel(hostname) = toLowerCase(sliceEnd(pattern, 2))
          ELSE FALSE

\* (r.priority || 0): priorities are numbers (BaseRenderer defaults to 0),
\* and n || 0 = n for every number n
PriorityOf(r) == IF r.priority = 0 THEN 0 ELSE r.priority

\* new DefaultRenderer()
DefaultRenderer == [name |-> "default", patterns |-> <<"*">>, priority |-> -1]

\* the renderers discoverRenderers registers, in its order
WikipediaRenderer ==
    [name |-> "wikipedia", patterns |-> <<"*.wikipedia.org", "wikipedia.org">>, priority |-> 10]
ArxivRenderer ==
    [name |-> "arxiv", patterns |-> <<"arxiv.org/html/*", "arxiv.org/abs/*">>, priority |-> 10]
\* an AI renderer that declares the wildcard pattern
AIRendererCatchAll == [name |-> "ai", patterns |-> <<"*">>, priority |-> 100]

AIRenderer == [name |-> "ai", patterns |-> <<>>, priority |-> 100]

\* other implementers of the renderer contract that register() accepts
PluginRenderers ==
    { [name |-> "enwiki",  patterns |-> <<"en.wikipedia.org">>,         priority |-> 10],
      [name |-> "example", patterns |-> <<"blog.*", "example.*">>,      priority |-> 0],
      [name |-> "archive", patterns |-> <<"example.org/a/*">>,          priority |-> -2] }

Candidates == {WikipediaRenderer, ArxivRenderer, AIRenderer} \cup PluginRenderers

\* the URLs handed to selectRenderer
Urls ==
    { "https://en.wikipedia.org/wiki/Cat",
      "https://wikipedia.org",
      "https://arxiv.org/abs/1",
      "https://Example.org/A/b",
      "https://blog.dev/x",
      "https://x.com/u",
      "not a url" }

\* bound on the number of register() calls
MaxRenderers == 3

\* an unstable sort: x goes before the elements of equal priority
RECURSIVE InsertSortedUnstable(_, _)
InsertSortedUnstable(sorted, x) ==
    IF Len(sorted) = 0 THEN <<x>>
    ELSE IF PriorityOf(x) - PriorityOf(sorted[Len(sorted)]) >= 0
         THEN Append(InsertSortedUnstable(SubSeq(sorted, 1, Len(sorted) - 1), x),
                     sorted[Len(sorted)])
         ELSE Append(sorted, x)

\* Array.prototype.sort is stable: insert x after every element that does
\* not compare greater, i.e. after every element with priority >= x's
RECURSIVE InsertSorted(_, _)
InsertSorted(sorted, x) ==
    IF Len(sorted) = 0 THEN <<x>>
    ELSE IF PriorityOf(x) - PriorityOf(sorted[Len(sorted)]) > 0
         THEN Append(InsertSorted(SubSeq(sorted, 1, Len(sorted) - 1), x), sorted[Len(sorted)])
         ELSE Append(sorted, x)

\* renderers.sort((a, b) => (b.priority || 0) - (a.priority || 0))
RECURSIVE SortByPriority(_)
SortByPriority(arr) ==
    IF Len(arr) = 0 THEN <<>>
    ELSE InsertSorted(SortByPriority(SubSeq(arr, 1, Len(arr) - 1)), arr[Len(arr)])

\* getAll(): [...this.renderers, this.defaultRenderer]
getAll(rs) == Append(rs, DefaultRenderer)

\* a loop that looks at the pattern at position j only
FirstPatternOnly(url, patterns, j) ==
    IF j <= Len(patterns) /\ matchesPattern(url, patterns[j]) THEN j ELSE 0

\* the nested for-loops of selectRenderer: first j of renderer r whose pattern matches, 0 if none
RECURSIVE FirstPattern(_, _, _)
FirstPattern(url, patterns, j) ==
    IF j > Len(patterns) THEN 0
    ELSE IF matchesPattern(url, patterns[j]) THEN j
    ELSE FirstPattern(url, patterns, j + 1)

RECURSIVE FirstPair(_, _, _)
FirstPair(url, rs, i) ==
    IF i > Len(rs) THEN <<0, 0>>
    ELSE LET j == FirstPattern(url, rs[i].patterns, 1)
         IN IF j # 0 THEN <<i, j>> ELSE FirstPair(url, rs, i + 1)

\* selectRenderer(url), given the pair the loops stop at
RendererAt(rs, pair) == IF pair[1] # 0 THEN rs[pair[1]] ELSE DefaultRenderer

selectRenderer(rs, url) == RendererAt(rs, FirstPair(url, rs, 1))

RegInit ==
    /\ renderers = <<>>
    /\ regOrder = <<>>
    /\ selUrl = ""
    /\ selected = ""
    /\ selPair = <<0, 0>>

\* register(renderer)
Register(r) ==
    /\ Len(regOrder) < MaxRenderers
    /\ \A i \in 1..Len(renderers) : renderers[i].name # r.name
    /\ renderers' = SortByPriority(Append(renderers, r))
    /\ regOrder' = Append(regOrder, r.name)
    \* the recorded call was answered from the registry as it was before
    /\ selUrl' = ""
    /\ selected' = ""
    /\ selPair' = <<0, 0>>
    /\ UNCHANGED pipeVars
    /\ UNCHANGED shutVars
    /\ UNCHANGED contentVars
    /\ UNCHANGED appVars

\* selectRenderer(url)
SelectRenderer(url) ==
    /\ selUrl' = url
    /\ LET pair == FirstPair(url, renderers, 1)
       IN /\ selected' = RendererAt(renderers, pair).name
          /\ selPair' = pair
    /\ UNCHANGED <<renderers, regOrder>>
    /\ UNCHANGED pipeVars
    /\ UNCHANGED shutVars
    /\ UNCHANGED contentVars
    /\ UNCHANGED appVars

----------------------------------------------------------------------------
(* browser.ts: the shared browser and getPageData                           *)

\* bound on the number of concurrent getPageData callers
NumCallers == 2

Reqs == 1..NumCallers

NoOpts == [forceBrowser |-> FALSE, extractVisibility |-> FALSE,
           extractImages |-> FALSE, extractCss |-> FALSE]

NoReq == [route |-> "none", url |-> "", opts |-> NoOpts, renderer |-> ""]

\* no getPageData invocation: call site, the local `browser`, the page, the
\* error caught by the try block, whether the challenge wait timed out
NoCall == [site |-> "none", browser |-> 0, page |-> "none", err |-> "none",
           waitTimedOut |-> FALSE]

NoStats == [http |-> 0, gpd |-> 0, opened |-> 0, closeCalls |-> 0,
            closeLogged |-> 0, convert |-> 0]

NoResult == [kind |-> "none", method |-> "none", html |-> "", error |-> "none"]

\* threw: the stage whose error reached the handler's catch ("none": no error)
NoResp == [status |-> 0, body |-> "none", renderer |-> "", threw |-> "none"]

\* no lightweight attempt; kind is "html", "nonHtml", "status", "network",
\* "httpTimeout" or "invalidUrl" once fetchWithHttp has settled
NoLw == [kind |-> "none", html |-> ""]

\* pageData.html as page.evaluate returns it
BrowserHtml == "<html>rendered</html>"

PipeInit ==
    /\ browserInstance = 0
    /\ browsers = <<>>
    /\ pandocAvailable = "unchecked"
    /\ pc = [r \in Reqs |-> "idle"]
    /\ req = [r \in Reqs |-> NoReq]
    /\ lw = [r \in Reqs |-> NoLw]
    /\ call = [r \in Reqs |-> NoCall]
    /\ stats = [r \in Reqs |-> NoStats]
    /\ result = [r \in Reqs |-> NoResult]
    /\ resp = [r \in Reqs |-> NoResp]

\* no signal has arrived
ShutInit ==
    /\ exited = FALSE
    /\ sigs = <<>>
    /\ closeLog = <<>>

\* what AIRenderer.process works on: pc is the await it is suspended at,
\* failed the step that failed inside it, raised the error it threw
NoAI == [pc |-> "idle", env |-> FALSE, apiKey |-> FALSE, enabled |-> FALSE, html |-> "",
         markdown |-> <<>>, out |-> <<>>, notes |-> "none",
         failed |-> "none", raised |-> "none"]

\* no matchesPattern call yet
NoMatch == [url |-> "", pattern |-> "", result |-> FALSE]

\* an attribute the element does not have
Absent == "(absent)"

\* no transformImagesToAbsolute call yet; once and twice are the element
\* after one and after two applications
NoImg == [base |-> "", src |-> Absent, srcset |-> Absent,
          once |-> <<>>, twice |-> <<>>]

\* no extracted CSS yet; lines is extractedCSS.split('\n'), out the lines
\* of scopedCSS
NoCss == [lines |-> <<>>, out |-> <<>>]

ContentInit ==
    /\ ai = NoAI
    /\ match = NoMatch
    /\ img = NoImg
    /\ css = NoCss

\* no renderer.process call yet
NoRender == [renderer |-> "", before |-> <<>>, after |-> <<>>, out |-> <<>>]

\* the lifetime of a session (7 days) and the span of time observed, in ticks
SessionTicks == 2
MaxTime == SessionTicks + 1
MaxSessions == 2
MaxChallenges == 2

Usernames == {"alice"}
\* the people who talk to the server, each with an authenticator of their own
Clients == {"alice", "mallory"}
SessionIds == 1..MaxSessions
NoUser == [exists |-> FALSE, credentials |-> {}]
NoSession == [userId |-> Absent, expiresAt |-> 0]
NoAuthOut == [op |-> "none", by |-> "", username |-> "", id |-> 0, at |-> 0,
              status |-> 0, accepted |-> FALSE, before |-> {}]

AuthInit ==
    /\ users = [u \in Usernames |-> NoUser]
    /\ sessions = [i \in SessionIds |-> NoSession]
    /\ challenges = [u \in Usernames |-> 0]
    /\ now = 0
    /\ issued = [i \in SessionIds |-> [createdAt |-> -1, deleted |-> FALSE]]
    /\ known = [p \in Clients |-> {}]
    /\ authOut = NoAuthOut

\* an <a> element: its href and hx-* attributes
NoAnchor == [href |-> Absent, hxGet |-> Absent, hxTarget |-> Absent,
             hxIndicator |-> Absent, hxPushUrl |-> Absent]
NoLink == [base |-> "", before |-> NoAnchor, after |-> NoAnchor]

\* useState<string[]>([]) and useState(-1); rendered: the values the
\* callbacks of the last render closed over; pending: the indexes that
\* fetches started by goBack / goForward will set when they resolve
UiInit == [history |-> <<>>, historyIndex |-> -1,
           rendered |-> [history |-> <<>>, historyIndex |-> -1],
           pending |-> {}]

AppInit ==
    /\ render = NoRender
    /\ AuthInit
    /\ link = NoLink
    /\ ui = UiInit

Init == RegInit /\ PipeInit /\ ShutInit /\ ContentInit /\ AppInit

\* routes whose caller is not an HTTP handler of the pipeline
PlainCallers == {"direct", "api", "smartFetch"}

\* handlers that answer every caught error with a 500 JSON body
ErrorResponseAlways500(route) ==
    IF route \in {"render", "path", "markdown"}
    THEN [NoResp EXCEPT !.status = 500, !.body = "errorJson"]
    ELSE [NoResp EXCEPT !.body = "thrown"]

\* the handler's answer to an error thrown out of its try block; to a plain
\* caller the error is simply thrown
ErrorResponse(route) ==
    CASE route = "render"   -> [NoResp EXCEPT !.status = 200, !.body = "errorFragment"]
      [] route = "path"     -> [NoResp EXCEPT !.status = 200, !.body = "errorPage"]
      [] route = "markdown" -> [NoResp EXCEPT !.status = 500, !.body = "errorJson"]
      [] OTHER              -> [NoResp EXCEPT !.body = "thrown"]

\* getBrowser() up to its first await: with no browser yet puppeteer.launch
\* is called and awaited, else browserInstance is returned
getBrowser(site, bs) ==
    IF browserInstance = 0
    THEN [pc |-> "launch", browsers |-> Append(bs, "starting"),
          call |-> [NoCall EXCEPT !.site = site, !.browser = Len(bs) + 1]]
    ELSE [pc |-> "newPage", browsers |-> bs,
          call |-> [NoCall EXCEPT !.site = site, !.browser = browserInstance]]

\* getPageData(url) is entered from call site `site`; bs and st are the
\* browsers and stats as the calling step leaves them
EnterGetPageData(r, site, bs, st) ==
    /\ pc' = [pc EXCEPT ![r] = getBrowser(site, bs).pc]
    /\ call' = [call EXCEPT ![r] = getBrowser(site, bs).call]
    /\ browsers' = getBrowser(site, bs).browsers
    /\ stats' = [st EXCEPT ![r].gpd = @ + 1]

\* an error leaves fetchPageData / smartFetch: the handler's catch answers
FetchThrows(r, error) ==
    /\ result' = [result EXCEPT ![r] = [NoResult EXCEPT !.kind = "error", !.error = error]]
    /\ resp' = [resp EXCEPT ![r] = [ErrorResponse(req[r].route) EXCEPT !.threw = "fetch"]]
    /\ pc' = [pc EXCEPT ![r] = "done"]

\* getPageData throws `error` to its call site.  The JS-gate escalation sits
\* inside smartFetch's try block, whose catch block calls getPageData again.
\* bs, st and c are the browsers, stats and call as the throwing step leaves them.
GetPageDataThrows(r, error, bs, st, c) ==
    IF call[r].site = "jsgate"
    THEN /\ EnterGetPageData(r, "catch", bs, st)
         /\ UNCHANGED <<result, resp>>
    ELSE /\ FetchThrows(r, error)
         /\ browsers' = bs
         /\ stats' = st
         /\ call' = c

\* getPageData returns PageData to its call site
GetPageDataReturns(r) ==
    /\ result' = [result EXCEPT ![r] =
                    [NoResult EXCEPT !.kind = "data", !.method = "chrome", !.html = BrowserHtml]]
    /\ pc' = [pc EXCEPT ![r] = IF req[r].route \in PlainCallers THEN "done" ELSE "fetched"]
    /\ resp' = [resp EXCEPT ![r] = IF req[r].route \in PlainCallers
                                  THEN [NoResp EXCEPT !.body = "returned"] ELSE @]

\* the URLs requests ask for
FetchUrls ==
    { "https://en.wikipedia.org/wiki/Cat",
      "https://x.com/u",
      "https://news.netflix.com/t",
      "not a url",
      "http://a b" }

\* the URLs direct callers pass
DirectUrls == { "https://en.wikipedia.org/wiki/Cat" }

\* a caller (index.ts) calls getPageData(url) directly
CallGetPageData(r, url) ==
    /\ ~ exited
    /\ pc[r] = "idle"
    /\ req' = [req EXCEPT ![r] = [NoReq EXCEPT !.route = "direct", !.url = url]]
    /\ EnterGetPageData(r, "direct", browsers, stats)
    /\ UNCHANGED <<browserInstance, pandocAvailable, lw, result, resp>>
    /\ UNCHANGED regVars
    /\ UNCHANGED shutVars
    /\ UNCHANGED contentVars
    /\ UNCHANGED appVars

\* browserInstance = await puppeteer.launch(...): the launch settles
LaunchSettles(r, ok) ==
    /\ ~ exited
    /\ pc[r] = "launch"
    /\ IF ok
       THEN /\ browserInstance' = call[r].browser
            /\ browsers' = [browsers EXCEPT ![call[r].browser] = "running"]
            /\ pc' = [pc EXCEPT ![r] = "newPage"]
            /\ UNCHANGED <<call, stats, result, resp>>
       ELSE /\ browserInstance' = browserInstance
            /\ GetPageDataThrows(r, "launch",
                                 [browsers EXCEPT ![call[r].browser] = "failed"],
                                 stats, [call EXCEPT ![r].err = "launch"])
    /\ UNCHANGED <<pandocAvailable, req, lw>>
    /\ UNCHANGED regVars
    /\ UNCHANGED shutVars
    /\ UNCHANGED contentVars
    /\ UNCHANGED appVars

\* const page = await browser.newPage(), before the try block
NewPageSettles(r, ok) ==
    /\ ~ exited
    /\ pc[r] = "newPage"
    /\ IF ok
       THEN /\ call' = [call EXCEPT ![r].page = "open"]
            /\ stats' = [stats EXCEPT ![r].opened = @ + 1]
            /\ pc' = [pc EXCEPT ![r] = "goto"]
            /\ UNCHANGED <<browsers, result, resp>>
       ELSE GetPageDataThrows(r, "newPage", browsers, stats,
                              [call EXCEPT ![r].err = "newPage"])
    /\ UNCHANGED <<browserInstance, pandocAvailable, req, lw>>
    /\ UNCHANGED regVars
    /\ UNCHANGED shutVars
    /\ UNCHANGED contentVars
    /\ UNCHANGED appVars

\* control reaches the finally block with `err` caught (or "none"):
\* page.close() is called and awaited
ToFinally(r, err) ==
    /\ call' = [call EXCEPT ![r].err = err]
    /\ stats' = [stats EXCEPT ![r].closeCalls = @ + 1]
    /\ pc' = [pc EXCEPT ![r] = "close"]

\* page.setViewport .. page.goto(url, {timeout}): the navigation settles
GotoSettles(r, outcome) ==
    /\ ~ exited
    /\ pc[r] = "goto"
    /\ IF outcome = "ok"
       THEN /\ pc' = [pc EXCEPT ![r] = "wait"]
            /\ UNCHANGED <<call, stats>>
       ELSE ToFinally(r, outcome)
    /\ UNCHANGED <<browserInstance, browsers, pandocAvailable, req, lw, result, resp>>
    /\ UNCHANGED regVars
    /\ UNCHANGED shutVars
    /\ UNCHANGED contentVars
    /\ UNCHANGED appVars

\* a challenge wait whose timeout is not caught
WaitSettlesFatal(r, timedOut) ==
    /\ ~ exited
    /\ pc[r] = "wait"
    /\ IF timedOut
       THEN /\ call' = [call EXCEPT ![r].waitTimedOut = TRUE, ![r].err = "timeout"]
            /\ stats' = [stats EXCEPT ![r].closeCalls = @ + 1]
            /\ pc' = [pc EXCEPT ![r] = "close"]
       ELSE /\ call' = [call EXCEPT ![r].waitTimedOut = FALSE]
            /\ pc' = [pc EXCEPT ![r] = "evaluate"]
            /\ UNCHANGED stats
    /\ UNCHANGED <<browserInstance, browsers, pandocAvailable, req, lw, result, resp>>
    /\ UNCHANGED regVars
    /\ UNCHANGED shutVars
    /\ UNCHANGED contentVars
    /\ UNCHANGED appVars

\* page.waitForFunction(..., {timeout}).catch(() => {}): the challenge wait
WaitSettles(r, timedOut) ==
    /\ ~ exited
    /\ pc[r] = "wait"
    /\ call' = [call EXCEPT ![r].waitTimedOut = timedOut]
    /\ pc' = [pc EXCEPT ![r] = "evaluate"]
    /\ UNCHANGED <<browserInstance, browsers, pandocAvailable, req, lw, stats, result, resp>>
    /\ UNCHANGED regVars
    /\ UNCHANGED shutVars
    /\ UNCHANGED contentVars
    /\ UNCHANGED appVars

\* the page.evaluate calls that extract visibility, images, CSS and data
EvaluateSettles(r, ok) ==
    /\ ~ exited
    /\ pc[r] = "evaluate"
    /\ ToFinally(r, IF ok THEN "none" ELSE "evaluate")
    /\ UNCHANGED <<browserInstance, browsers, pandocAvailable, req, lw, result, resp>>
    /\ UNCHANGED regVars
    /\ UNCHANGED shutVars
    /\ UNCHANGED contentVars
    /\ UNCHANGED appVars

\* a finally block that awaits page.close() bare: its rejection is thrown
ThrownAfterCloseUnguarded(err, closeOk) == IF closeOk THEN err ELSE "close"

\* what getPageData throws once page.close() has settled: the error the try
\* block caught; a rejected close is logged by its own .catch
ThrownAfterClose(err, closeOk) == err

\* finally { await page.close().catch(log) } settles; getPageData exits
CloseSettles(r, ok) ==
    /\ ~ exited
    /\ pc[r] = "close"
    /\ LET st == [stats EXCEPT ![r].closeLogged = IF ok THEN @ ELSE @ + 1]
           c  == [call EXCEPT ![r].page = IF ok THEN "closed" ELSE "closeFailed"]
       IN IF ThrownAfterClose(call[r].err, ok) = "none"
          THEN /\ GetPageDataReturns(r)
               /\ call' = c
               /\ stats' = st
               /\ UNCHANGED browsers
          ELSE GetPageDataThrows(r, ThrownAfterClose(call[r].err, ok), browsers, st, c)
    /\ UNCHANGED <<browserInstance, pandocAvailable, req, lw>>
    /\ UNCHANGED regVars
    /\ UNCHANGED shutVars
    /\ UNCHANGED contentVars
    /\ UNCHANGED appVars

----------------------------------------------------------------------------
(* fetcher.ts, page-fetcher.ts                                              *)

JS_REQUIRED_DOMAINS ==
    { "twitter.com", "x.com", "instagram.com", "facebook.com", "linkedin.com",
      "reddit.com", "medium.com", "substack.com", "github.com" }

\* a check that asks every listed domain to occur in the hostname
requiresJavaScriptEvery(url) ==
    IF ~ UrlParses(url) THEN FALSE
    ELSE \A domain \in JS_REQUIRED_DOMAINS :
             includes(toLowerCase(UrlHostname(url)), domain)

requiresJavaScript(url) ==
    IF ~ UrlParses(url) THEN FALSE                        \* catch: return false
    ELSE \E domain \in JS_REQUIRED_DOMAINS :
             includes(toLowerCase(UrlHostname(url)), domain)

jsIndicators ==
    { "enable javascript", "javascript is required", "javascript disabled",
      "noscript", "please enable javascript", "this page requires javascript" }

\* a scan of the markup as it came, without lower-casing it
detectJsRequiredCaseSensitive(html) ==
    \E indicator \in jsIndicators : includes(html, indicator)

detectJsRequired(html) ==
    LET lowercaseHtml == toLowerCase(html)
    IN \E indicator \in jsIndicators : includes(lowercaseHtml, indicator)

\* fetchPageData: extractVisibility || extractImages || extractCss || forceBrowser
NeedsBrowser(opts) ==
    opts.extractVisibility \/ opts.extractImages \/ opts.extractCss \/ opts.forceBrowser

\* markup the lightweight request can return
HtmlSamples ==
    { "<p>Please enable JavaScript</p>",
      "<NoScript>x</NoScript>",
      "<p>JavaScript cat</p>" }

\* the ways the lightweight request settles
LwOutcomes ==
    { [kind |-> k, html |-> ""] : k \in {"network", "httpTimeout", "status", "nonHtml"} }
      \cup { [kind |-> "html", html |-> h] : h \in HtmlSamples }

\* options callers of fetchPageData pass
OptionSets ==
    { NoOpts,
      [NoOpts EXCEPT !.forceBrowser = TRUE],
      [NoOpts EXCEPT !.extractVisibility = TRUE],
      [NoOpts EXCEPT !.extractImages = TRUE],
      [NoOpts EXCEPT !.extractCss = TRUE] }

\* smartFetch returns the lightweight markup
SmartFetchReturnsHtml(r, html) ==
    /\ result' = [result EXCEPT ![r] =
                    [NoResult EXCEPT !.kind = "data", !.method = "fetch", !.html = html]]
    /\ pc' = [pc EXCEPT ![r] = IF req[r].route \in PlainCallers THEN "done" ELSE "fetched"]
    /\ resp' = [resp EXCEPT ![r] = IF req[r].route \in PlainCallers
                                  THEN [NoResp EXCEPT !.body = "returned"] ELSE @]

\* a smartFetch whose try block has no catch: the error is thrown on
AfterLightweightNoCatch(outcome) ==
    IF outcome.kind = "html"
    THEN IF detectJsRequired(outcome.html) THEN "jsgate" ELSE "return"
    ELSE "throw"

\* what smartFetch does with a settled lightweight attempt: "return" its
\* markup, escalate from the "jsgate" check, or escalate from the "catch"
\* block ("throw", letting the error leave smartFetch, is on no path)
AfterLightweight(outcome) ==
    IF outcome.kind = "html"
    THEN IF detectJsRequired(outcome.html) THEN "jsgate" ELSE "return"
    ELSE "catch"

\* smartFetch(url, {forceBrowser}) up to its first await
smartFetch(r, url, forceBrowser) ==
    IF forceBrowser
    THEN /\ EnterGetPageData(r, "forced", browsers, stats)
         /\ UNCHANGED lw
    ELSE IF requiresJavaScript(url)
    THEN /\ EnterGetPageData(r, "known", browsers, stats)
         /\ UNCHANGED lw
    ELSE IF UrlParses(url)
    THEN \* fetchWithHttp: the request is sent and awaited
         /\ stats' = [stats EXCEPT ![r].http = @ + 1]
         /\ pc' = [pc EXCEPT ![r] = "http"]
         /\ UNCHANGED <<lw, call, browsers>>
    ELSE \* fetch(url) rejects without sending anything: the catch block runs
         /\ lw' = [lw EXCEPT ![r] = [NoLw EXCEPT !.kind = "invalidUrl"]]
         /\ EnterGetPageData(r, "catch", browsers, stats)

\* fetchPageData(url, options) up to its first await
fetchPageData(r, url, opts) ==
    IF NeedsBrowser(opts)
    THEN /\ EnterGetPageData(r, "options", browsers, stats)
         /\ UNCHANGED lw
    ELSE smartFetch(r, url, opts.forceBrowser)

\* await fetch(url, ...) and the checks of fetchWithHttp settle
HttpSettles(r, outcome) ==
    /\ ~ exited
    /\ pc[r] = "http"
    /\ lw' = [lw EXCEPT ![r] = outcome]
    /\ CASE AfterLightweight(outcome) = "return" ->
              /\ SmartFetchReturnsHtml(r, outcome.html)
              /\ UNCHANGED <<call, browsers, stats>>
         [] AfterLightweight(outcome) = "throw" ->
              /\ FetchThrows(r, outcome.kind)
              /\ UNCHANGED <<call, browsers, stats>>
         [] OTHER ->
              /\ EnterGetPageData(r, AfterLightweight(outcome), browsers, stats)
              /\ UNCHANGED <<result, resp>>
    /\ UNCHANGED <<browserInstance, pandocAvailable, req>>
    /\ UNCHANGED regVars
    /\ UNCHANGED shutVars
    /\ UNCHANGED contentVars
    /\ UNCHANGED appVars

\* a caller calls fetchPageData(url, options) (GET /css, /images, /visibility, ...)
CallFetchPageData(r, url, opts) ==
    /\ ~ exited
    /\ pc[r] = "idle"
    /\ req' = [req EXCEPT ![r] = [NoReq EXCEPT !.route = "api", !.url = url, !.opts = opts]]
    /\ fetchPageData(r, url, opts)
    /\ UNCHANGED <<browserInstance, pandocAvailable, result, resp>>
    /\ UNCHANGED regVars
    /\ UNCHANGED shutVars
    /\ UNCHANGED contentVars
    /\ UNCHANGED appVars

\* a caller calls smartFetch(url, {forceBrowser})
CallSmartFetch(r, url, forceBrowser) ==
    /\ ~ exited
    /\ pc[r] = "idle"
    /\ req' = [req EXCEPT ![r] = [NoReq EXCEPT !.route = "smartFetch", !.url = url,
                                               !.opts.forceBrowser = forceBrowser]]
    /\ smartFetch(r, url, forceBrowser)
    /\ UNCHANGED <<browserInstance, pandocAvailable, result, resp>>
    /\ UNCHANGED regVars
    /\ UNCHANGED shutVars
    /\ UNCHANGED contentVars
    /\ UNCHANGED appVars

----------------------------------------------------------------------------
(* server.tsx: startup and the request handlers                             *)

\* registry.register(r) on a renderer list
registered(rs, r) == SortByPriority(Append(rs, r))

\* discoverRenderers(): Wikipedia, Arxiv, AI are registered in this order
DiscoveredRenderers ==
    registered(registered(registered(<<>>, WikipediaRenderer), ArxivRenderer), AIRenderer)

\* module initialisation: await discoverRenderers(); await pandocHealthCheck()
StartServer(healthy) ==
    /\ ~ exited
    /\ pandocAvailable = "unchecked"
    /\ renderers = <<>>
    /\ renderers' = DiscoveredRenderers
    /\ regOrder' = <<WikipediaRenderer.name, ArxivRenderer.name, AIRenderer.name>>
    /\ pandocAvailable' = IF healthy THEN "yes" ELSE "no"
    /\ UNCHANGED <<selUrl, selected, selPair>>
    /\ UNCHANGED <<browserInstance, browsers, pc, req, lw, call, stats, result, resp>>
    /\ UNCHANGED shutVars
    /\ UNCHANGED contentVars
    /\ UNCHANGED appVars

Serving == pandocAvailable # "unchecked"

\* decodedPathname.match(/^\/(https?:\/\/.+)$/) on the URL-as-path route
PathUrlMatches(url) ==
    \/ startsWith(url, "http://") /\ Len(url) > Len("http://")
    \/ startsWith(url, "https://") /\ Len(url) > Len("https://")

\* the handler answers without entering its try block
AnswerEarly(r, status, body) ==
    /\ resp' = [resp EXCEPT ![r] = [NoResp EXCEPT !.status = status, !.body = body]]
    /\ pc' = [pc EXCEPT ![r] = "done"]
    /\ UNCHANGED <<lw, call, stats, browsers, result>>

\* the values of the q parameter and of the path
TargetUrls == FetchUrls \cup {""}

\* the values of the renderer parameter
RendererParams == {"", "ai", "bogus"}

\* GET /render?q=url&renderer=name up to its first await
GetRender(r, url, renderer) ==
    /\ ~ exited
    /\ Serving
    /\ pc[r] = "idle"
    /\ req' = [req EXCEPT ![r] = [NoReq EXCEPT !.route = "render", !.url = url,
                                               !.renderer = renderer]]
    /\ IF url = ""
       THEN AnswerEarly(r, 400, "missingQ")
       ELSE /\ fetchPageData(r, url, NoOpts)
            /\ UNCHANGED <<result, resp>>
    /\ UNCHANGED <<browserInstance, pandocAvailable>>
    /\ UNCHANGED regVars
    /\ UNCHANGED shutVars
    /\ UNCHANGED contentVars
    /\ UNCHANGED appVars

\* GET /<url> and GET /ai/<url> (renderer "ai") up to the first await
GetUrlAsPath(r, url, renderer) ==
    /\ ~ exited
    /\ Serving
    /\ pc[r] = "idle"
    /\ req' = [req EXCEPT ![r] = [NoReq EXCEPT !.route = "path", !.url = url,
                                               !.renderer = renderer]]
    /\ IF ~ PathUrlMatches(url)
       THEN AnswerEarly(r, 404, "notFound")
       ELSE /\ fetchPageData(r, url, NoOpts)
            /\ UNCHANGED <<result, resp>>
    /\ UNCHANGED <<browserInstance, pandocAvailable>>
    /\ UNCHANGED regVars
    /\ UNCHANGED shutVars
    /\ UNCHANGED contentVars
    /\ UNCHANGED appVars

\* GET /markdown?q=url up to its first await
GetMarkdown(r, url) ==
    /\ ~ exited
    /\ Serving
    /\ pc[r] = "idle"
    /\ req' = [req EXCEPT ![r] = [NoReq EXCEPT !.route = "markdown", !.url = url]]
    /\ IF url = ""
       THEN AnswerEarly(r, 400, "missingQ")
       ELSE /\ fetchPageData(r, url, NoOpts)
            /\ UNCHANGED <<result, resp>>
    /\ UNCHANGED <<browserInstance, pandocAvailable>>
    /\ UNCHANGED regVars
    /\ UNCHANGED shutVars
    /\ UNCHANGED contentVars
    /\ UNCHANGED appVars

\* allRenderers.find(r => r.name === name): its index in getAll(), 0 if absent
FindRenderer(rs, name) ==
    IF \E i \in 1..Len(getAll(rs)) : getAll(rs)[i].name = name
    THEN CHOOSE i \in 1..Len(getAll(rs)) :
            /\ getAll(rs)[i].name = name
            /\ \A k \in 1..(i - 1) : getAll(rs)[k].name # name
    ELSE 0

\* the stages of the pipeline after the fetch
Stages == {"process", "format", "convert"}

\* the rest of the try block of GET /render and of the URL-as-path route:
\* the stage failAt throws ("none": no stage does)
RenderResponse(route, url, rendererName, rs, failAt) ==
    IF rendererName # "" /\ FindRenderer(rs, rendererName) = 0
    THEN [NoResp EXCEPT !.status = 400, !.body = "rendererNotFound"]
    ELSE LET renderer == IF rendererName # ""
                         THEN getAll(rs)[FindRenderer(rs, rendererName)]
                         ELSE selectRenderer(rs, url)
         IN IF failAt \in {"process", "format"}
            THEN [ErrorResponse(route) EXCEPT !.renderer = renderer.name, !.threw = failAt]
            ELSE [NoResp EXCEPT !.status = 200, !.body = "content",
                                !.renderer = renderer.name]

\* the rest of the try block of GET /markdown; available is pandocAvailable
MarkdownResponse(route, url, rs, available, failAt) ==
    LET renderer == selectRenderer(rs, url)
    IN IF failAt = "process" \/ available # "yes" \/ failAt = "convert"
       THEN [ErrorResponse(route) EXCEPT
               !.renderer = renderer.name,
               !.threw = IF failAt = "process" THEN "process"
                         ELSE IF available # "yes" THEN "unavailable" ELSE "convert"]
       ELSE [NoResp EXCEPT !.status = 200, !.body = "markdown", !.renderer = renderer.name]

\* a GET /markdown that calls pandocConvert without testing pandocAvailable
ConvertCallsUnchecked(available, failAt) ==
    IF failAt # "process" THEN 1 ELSE 0

\* number of requests GET /markdown sends to the conversion service
ConvertCalls(available, failAt) ==
    IF failAt # "process" /\ available = "yes" THEN 1 ELSE 0

\* the handler runs from the fetched PageData to its response
Pipeline(r, failAt) ==
    /\ ~ exited
    /\ pc[r] = "fetched"
    /\ pc' = [pc EXCEPT ![r] = "done"]
    /\ IF req[r].route = "markdown"
       THEN /\ resp' = [resp EXCEPT ![r] =
                          MarkdownResponse(req[r].route, req[r].url, renderers,
                                           pandocAvailable, failAt)]
            /\ stats' = [stats EXCEPT ![r].convert =
                          @ + ConvertCalls(pandocAvailable, failAt)]
       ELSE /\ resp' = [resp EXCEPT ![r] =
                          RenderResponse(req[r].route, req[r].url, req[r].renderer,
                                         renderers, failAt)]
            /\ stats' = stats
    /\ UNCHANGED <<browserInstance, browsers, pandocAvailable, req, lw, call, result>>
    /\ UNCHANGED regVars
    /\ UNCHANGED shutVars
    /\ UNCHANGED contentVars
    /\ UNCHANGED appVars

\* the request the sequential specification follows: the first one
TheReq == CHOOSE r \in Reqs : \A q \in Reqs : r <= q

FetchNext ==
    \/ \E h \in BOOLEAN : StartServer(h)
    \/ \E u \in TargetUrls, n \in RendererParams : GetRender(TheReq, u, n)
    \/ \E u \in TargetUrls, n \in RendererParams : GetUrlAsPath(TheReq, u, n)
    \/ \E u \in TargetUrls : GetMarkdown(TheReq, u)
    \/ \E u \in FetchUrls, o \in OptionSets : CallFetchPageData(TheReq, u, o)
    \/ \E u \in FetchUrls, f \in BOOLEAN : CallSmartFetch(TheReq, u, f)
    \/ \E o \in LwOutcomes : HttpSettles(TheReq, o)
    \/ \E ok \in BOOLEAN : LaunchSettles(TheReq, ok)
    \/ \E ok \in BOOLEAN : NewPageSettles(TheReq, ok)
    \/ \E o \in {"ok", "timeout", "navigation"} : GotoSettles(TheReq, o)
    \/ \E t \in BOOLEAN : WaitSettles(TheReq, t)
    \/ \E ok \in BOOLEAN : EvaluateSettles(TheReq, ok)
    \/ \E ok \in BOOLEAN : CloseSettles(TheReq, ok)
    \/ \E f \in Stages \cup {"none"} : Pipeline(TheReq, f)

SpecFetch == Init /\ [][FetchNext]_vars

BrowserNext ==
    \/ \E r \in Reqs, u \in DirectUrls : CallGetPageData(r, u)
    \/ \E r \in Reqs, ok \in BOOLEAN : LaunchSettles(r, ok)
    \/ \E r \in Reqs, ok \in BOOLEAN : NewPageSettles(r, ok)
    \/ \E r \in Reqs, o \in {"ok", "timeout", "navigation"} : GotoSettles(r, o)
    \/ \E r \in Reqs, t \in BOOLEAN : WaitSettles(r, t)
    \/ \E r \in Reqs, ok \in BOOLEAN : EvaluateSettles(r, ok)
    \/ \E r \in Reqs, ok \in BOOLEAN : CloseSettles(r, ok)

SpecBrowser == Init /\ [][BrowserNext]_vars

----------------------------------------------------------------------------
(* Shutdown: the SIGINT and SIGTERM handlers of server.tsx and closeBrowser *)

\* number of termination signals delivered to the process
MaxSignals == 2

Signals == {"SIGINT", "SIGTERM"}

\* the request is suspended at an await of its handler
InFlight(r) == pc[r] \notin {"idle", "done"}

\* a started handler: pc is the await it is suspended at, target the browser
\* whose close() it awaits, waited whether the 10 s timer ran before it,
\* inflight whether a request was in flight when the signal arrived
NewHandler(sig) ==
    [sig |-> sig, pc |-> "start", target |-> 0, waited |-> FALSE,
     inflight |-> \E r \in Reqs : InFlight(r)]

\* await closeBrowser(); process.exit(0) in handler i, up to its first
\* await: with a browserInstance close() is called on it and awaited, with
\* none closeBrowser returns and the process exits
closeBrowser(i, hs) ==
    IF browserInstance # 0
    THEN /\ closeLog' = Append(closeLog, browserInstance)
         /\ browsers' = [browsers EXCEPT ![browserInstance] = "closing"]
         /\ sigs' = [hs EXCEPT ![i].pc = "closing", ![i].target = browserInstance]
         /\ exited' = FALSE
    ELSE /\ sigs' = [hs EXCEPT ![i].pc = "done"]
         /\ exited' = TRUE
         /\ UNCHANGED <<closeLog, browsers>>

\* the process receives a signal: the SIGINT handler calls closeBrowser at
\* once, the SIGTERM handler only sets the 10 s timer
Signal(sig) ==
    /\ ~ exited
    /\ Len(sigs) < MaxSignals
    /\ IF sig = "SIGINT"
       THEN closeBrowser(Len(sigs) + 1, Append(sigs, NewHandler(sig)))
       ELSE /\ sigs' = Append(sigs, [NewHandler(sig) EXCEPT !.pc = "timer"])
            /\ UNCHANGED <<exited, closeLog, browsers>>
    /\ UNCHANGED <<browserInstance, pandocAvailable, pc, req, lw, call, stats, result, resp>>
    /\ UNCHANGED regVars
    /\ UNCHANGED contentVars
    /\ UNCHANGED appVars

\* the 10 s timer of a SIGTERM handler fires: its callback calls closeBrowser
TimerFires(i) ==
    /\ ~ exited
    /\ i \in 1..Len(sigs)
    /\ sigs[i].pc = "timer"
    /\ closeBrowser(i, [sigs EXCEPT ![i].waited = TRUE])
    /\ UNCHANGED <<browserInstance, pandocAvailable, pc, req, lw, call, stats, result, resp>>
    /\ UNCHANGED regVars
    /\ UNCHANGED contentVars
    /\ UNCHANGED appVars

\* await browserInstance.close() settles in handler i: browserInstance = null
\* and then process.exit(0)
BrowserCloseSettles(i) ==
    /\ ~ exited
    /\ i \in 1..Len(sigs)
    /\ sigs[i].pc = "closing"
    /\ browsers' = [browsers EXCEPT ![sigs[i].target] = "closed"]
    /\ browserInstance' = 0
    /\ sigs' = [sigs EXCEPT ![i].pc = "done"]
    /\ exited' = TRUE
    /\ UNCHANGED closeLog
    /\ UNCHANGED <<pandocAvailable, pc, req, lw, call, stats, result, resp>>
    /\ UNCHANGED regVars
    /\ UNCHANGED contentVars
    /\ UNCHANGED appVars

ShutdownNext ==
    \/ \E u \in DirectUrls, o \in OptionSets : CallFetchPageData(TheReq, u, o)
    \/ \E o \in LwOutcomes : HttpSettles(TheReq, o)
    \/ \E ok \in BOOLEAN : LaunchSettles(TheReq, ok)
    \/ \E ok \in BOOLEAN : NewPageSettles(TheReq, ok)
    \/ \E o \in {"ok", "timeout", "navigation"} : GotoSettles(TheReq, o)
    \/ \E t \in BOOLEAN : WaitSettles(TheReq, t)
    \/ \E ok \in BOOLEAN : EvaluateSettles(TheReq, ok)
    \/ \E ok \in BOOLEAN : CloseSettles(TheReq, ok)
    \/ \E sig \in Signals : Signal(sig)
    \/ \E i \in 1..MaxSignals : TimerFires(i)
    \/ \E i \in 1..MaxSignals : BrowserCloseSettles(i)

SpecShutdown == Init /\ [][ShutdownNext]_vars

----------------------------------------------------------------------------
(* AIRenderer.process (renderers/ai-renderer.ts)                            *)

\* removeBoilerplate and transformImagesToAbsolute applied to the page markup
cleanHtml(html) == <<"clean", html>>

\* htmlToMarkdown(cleanHtml): what pandoc -f html -t gfm prints
htmlToMarkdown(html) == <<"gfm", html>>

\* refineWithAI(markdown, ...): the text of the API's answer
refineWithAI(markdown) == <<"refined", markdown>>

\* transformLinksToHtmx(await marked.parse(markdown), sourceUrl)
finalHtml(markdown) == <<"htmx", <<"marked", markdown>>>>

\* the markup process is given
PageHtmls == HtmlSamples \cup {BrowserHtml}

\* process returns a ProcessedContent
AIReturns(html, notes) ==
    ai' = [ai EXCEPT !.pc = "done", !.out = html, !.notes = notes]

\* an error leaves process
AIThrows(step) ==
    ai' = [ai EXCEPT !.pc = "done", !.failed = step, !.raised = step]

\* process(pageData, sourceUrl) up to await htmlToMarkdown(cleanHtml);
\* this.enabled is AI_RENDERER_ENABLED === "true" && !!this.apiKey
AIProcess(html, enabledEnv, apiKey) ==
    /\ ai.pc = "idle"
    /\ ai' = [NoAI EXCEPT !.pc = "htmlToMarkdown", !.env = enabledEnv, !.apiKey = apiKey,
                          !.enabled = enabledEnv /\ apiKey, !.html = html]
    /\ UNCHANGED <<regVars, pipeVars, shutVars, match, img, css>>
    /\ UNCHANGED appVars

\* await htmlToMarkdown(cleanHtml) settles; it is outside the try block
HtmlToMarkdownSettles(ok) ==
    /\ ai.pc = "htmlToMarkdown"
    /\ IF ~ ok
       THEN AIThrows("htmlToMarkdown")
       ELSE ai' = [ai EXCEPT !.markdown = htmlToMarkdown(cleanHtml(ai.html)),
                             !.pc = IF ~ ai.enabled \/ ~ ai.apiKey
                                    THEN "parsePlain" ELSE "refine"]
    /\ UNCHANGED <<regVars, pipeVars, shutVars, match, img, css>>
    /\ UNCHANGED appVars

\* AI disabled: await marked.parse(markdown) settles, outside the try block
ParsePlainSettles(ok) ==
    /\ ai.pc = "parsePlain"
    /\ IF ok
       THEN AIReturns(finalHtml(ai.markdown), "disabled")
       ELSE AIThrows("marked")
    /\ UNCHANGED <<regVars, pipeVars, shutVars, match, img, css>>
    /\ UNCHANGED appVars

\* Promise.race([apiPromise, timeoutPromise]): the API call settles first
ApiSettles(ok) ==
    /\ ai.pc = "refine"
    /\ IF ok
       THEN ai' = [ai EXCEPT !.pc = "parseRefined"]
       ELSE ai' = [ai EXCEPT !.pc = "parseFallback", !.failed = "api"]
    /\ UNCHANGED <<regVars, pipeVars, shutVars, match, img, css>>
    /\ UNCHANGED appVars

\* Promise.race([apiPromise, timeoutPromise]): the timeout rejects first
TimeoutWins ==
    /\ ai.pc = "refine"
    /\ ai' = [ai EXCEPT !.pc = "parseFallback", !.failed = "timeout"]
    /\ UNCHANGED <<regVars, pipeVars, shutVars, match, img, css>>
    /\ UNCHANGED appVars

\* await marked.parse(refinedMarkdown) settles, inside the try block
ParseRefinedSettles(ok) ==
    /\ ai.pc = "parseRefined"
    /\ IF ok
       THEN AIReturns(finalHtml(refineWithAI(ai.markdown)), "refined")
       ELSE ai' = [ai EXCEPT !.pc = "parseFallback", !.failed = "marked"]
    /\ UNCHANGED <<regVars, pipeVars, shutVars, match, img, css>>
    /\ UNCHANGED appVars

\* the catch block: await marked.parse(markdown) settles
ParseFallbackSettles(ok) ==
    /\ ai.pc = "parseFallback"
    /\ IF ok
       THEN AIReturns(finalHtml(ai.markdown), "failed")
       ELSE AIThrows("marked")
    /\ UNCHANGED <<regVars, pipeVars, shutVars, match, img, css>>
    /\ UNCHANGED appVars

AINext ==
    \/ \E h \in PageHtmls, e \in BOOLEAN, k \in BOOLEAN : AIProcess(h, e, k)
    \/ \E ok \in BOOLEAN : HtmlToMarkdownSettles(ok)
    \/ \E ok \in BOOLEAN : ParsePlainSettles(ok)
    \/ \E ok \in BOOLEAN : ApiSettles(ok)
    \/ TimeoutWins
    \/ \E ok \in BOOLEAN : ParseRefinedSettles(ok)
    \/ \E ok \in BOOLEAN : ParseFallbackSettles(ok)

SpecAI == Init /\ [][AINext]_vars

----------------------------------------------------------------------------
(* matchesPattern called on its own                                         *)

\* the URLs matchesPattern is called with
MatchUrls ==
    { "https://a.example.com/",
      "https://A.Example.com/x",
      "https://example.com",
      "https://notexample.com/",
      "https://example.org/",
      "https://myexample.com/",
      "https://host.io/path/anything",
      "https://host.io/path",
      "https://host.io/other",
      "https://Host.io/Path/",
      "https://arxiv.org/htmlfoo",
      "not a url" }

\* the patterns matchesPattern is called with
MatchPatterns ==
    { "*",
      "*.example.com",
      "*.Example.com",
      "example.*",
      "example.com",
      "Example.org",
      "host.io/path/*",
      "host.io/path",
      "Host.io/other",
      "*.example.com/x",
      "host.*/path",
      "arxiv.org/html/*" }

\* matchesPattern(url, pattern) is called
MatchesPattern(url, pattern) ==
    /\ match' = [url |-> url, pattern |-> pattern, result |-> matchesPattern(url, pattern)]
    /\ UNCHANGED <<regVars, pipeVars, shutVars, ai, img, css>>
    /\ UNCHANGED appVars

MatchNext ==
    \E u \in MatchUrls, p \in MatchPatterns : MatchesPattern(u, p)

SpecMatch == Init /\ [][MatchNext]_vars

----------------------------------------------------------------------------
(* transformImagesToAbsolute (extractor.ts) on one <img> element            *)

\* s.lastIndexOf(p), 1-based; 0 when p does not occur
RECURSIVE lastIndexFrom(_, _, _)
lastIndexFrom(s, p, i) ==
    IF i < 1 THEN 0
    ELSE IF SubSeq(s, i, i + Len(p) - 1) = p THEN i
    ELSE lastIndexFrom(s, p, i - 1)

\* s.split(sep) for a one-character separator
RECURSIVE split(_, _)
split(s, sep) ==
    LET i == indexOf(s, sep)
    IN IF i = 0 THEN <<s>>
       ELSE <<SubSeq(s, 1, i - 1)>> \o split(sliceFrom(s, i), sep)

RECURSIVE trimStart(_)
trimStart(s) ==
    IF Len(s) > 0 /\ SubSeq(s, 1, 1) = " " THEN trimStart(sliceFrom(s, 1)) ELSE s

RECURSIVE trimEnd(_)
trimEnd(s) ==
    IF Len(s) > 0 /\ SubSeq(s, Len(s), Len(s)) = " " THEN trimEnd(sliceEnd(s, 1)) ELSE s

\* s.trim()
trim(s) == trimEnd(trimStart(s))

\* s.split(/\s+/) for a trimmed s
RECURSIVE splitSpaces(_)
splitSpaces(s) ==
    LET i == indexOf(s, " ")
    IN IF i = 0 THEN <<s>>
       ELSE <<SubSeq(s, 1, i - 1)>> \o splitSpaces(trimStart(sliceFrom(s, i)))

\* parts.join(sep)
RECURSIVE join(_, _)
join(parts, sep) ==
    IF Len(parts) = 0 THEN ""
    ELSE IF Len(parts) = 1 THEN parts[1]
    ELSE parts[1] \o sep \o join(Tail(parts), sep)

fileExtensions ==
    {".html", ".htm", ".php", ".asp", ".aspx", ".jsp", ".pdf", ".xml", ".json"}

\* normalizedBaseUrl: a base without trailing "/" whose last path segment
\* has no file extension gets a "/" appended
normalizedBaseUrl(baseUrl) ==
    IF endsWith(baseUrl, "/") THEN baseUrl
    ELSE LET pathname == UrlPathname(baseUrl)
             lastPart == sliceFrom(pathname, lastIndexFrom(pathname, "/", Len(pathname)))
         IN IF \E ext \in fileExtensions : endsWith(toLowerCase(lastPart), ext)
            THEN baseUrl
            ELSE baseUrl \o "/"

\* scheme://host of a URL that parses
UrlOrigin(url) == SubSeq(url, 1, indexOf(url, "://") + 2) \o UrlHostname(url)

\* new URL(ref, base).href for a scheme-less ref without dot segments:
\* "//host/path" takes the scheme of base, "/path" its origin, and any other
\* ref replaces what follows the last "/" of the path of base
resolveUrl(ref, base) ==
    IF startsWith(ref, "//") THEN SubSeq(base, 1, indexOf(base, "://")) \o ref
    ELSE IF startsWith(ref, "/") THEN UrlOrigin(base) \o ref
    ELSE LET pathname == UrlPathname(base)
         IN UrlOrigin(base) \o SubSeq(pathname, 1, lastIndexFrom(pathname, "/", Len(pathname)))
                            \o ref

\* the test that skips data URLs and already absolute URLs
isDataOrAbsolute(url) ==
    startsWith(url, "data:") \/ startsWith(url, "http://") \/ startsWith(url, "https://")

\* the src attribute after the img[src] loop
absoluteSrc(src, base) ==
    IF src = Absent \/ src = "" \/ isDataOrAbsolute(src) THEN src
    ELSE resolveUrl(src, base)

\* the callback of srcset.split(',').map(...)
srcsetPart(part, base) ==
    LET tokens     == splitSpaces(trim(part))
        url        == tokens[1]
        descriptor == IF Len(tokens) >= 2 THEN tokens[2] ELSE ""
    IN IF url = "" THEN part
       ELSE IF isDataOrAbsolute(url) THEN part
       ELSE IF descriptor # "" THEN resolveUrl(url, base) \o " " \o descriptor
       ELSE resolveUrl(url, base)

\* the srcset attribute after the img[srcset] loop
absoluteSrcset(srcset, base) ==
    IF srcset = Absent \/ srcset = "" THEN srcset
    ELSE LET parts == split(srcset, ",")
         IN join([k \in 1..Len(parts) |-> srcsetPart(parts[k], base)], ", ")

\* transformImagesToAbsolute(html, baseUrl) on the attributes <<src, srcset>>
\* of an <img> element
transformImagesToAbsolute(el, baseUrl) ==
    <<absoluteSrc(el[1], normalizedBaseUrl(baseUrl)),
      absoluteSrcset(el[2], normalizedBaseUrl(baseUrl))>>

\* the source URLs of the pages
BaseUrls ==
    { "https://h.io/d/", "https://h.io/d", "https://h.io/p.html", "https://h.io" }

\* values of the src attribute
SrcValues ==
    { Absent, "a.png", "/i/a.png", "//cdn.io/a.png", "https://cdn.io/a.png", "data:x" }

\* values of the srcset attribute
SrcsetValues ==
    { Absent,
      "a.png",
      "a.png 1x",
      "a.png 1x, b.png 2x",
      "a.png 1x,/i/b.png 2x",
      "https://cdn.io/a.png 1x, https://cdn.io/b.png 2x" }

\* the transformation is applied to the page, and again to its own output
TransformImages(src, srcset, baseUrl) ==
    /\ img' = [base |-> baseUrl, src |-> src, srcset |-> srcset,
               once  |-> transformImagesToAbsolute(<<src, srcset>>, baseUrl),
               twice |-> transformImagesToAbsolute(
                            transformImagesToAbsolute(<<src, srcset>>, baseUrl), baseUrl)]
    /\ UNCHANGED <<regVars, pipeVars, shutVars, ai, match, css>>
    /\ UNCHANGED appVars

ImagesNext ==
    \E s \in SrcValues, ss \in SrcsetValues, b \in BaseUrls : TransformImages(s, ss, b)

SpecImages == Init /\ [][ImagesNext]_vars

----------------------------------------------------------------------------
(* CSS scoping: scopeSelector / scopedCSS of GET /render and of the         *)
(* URL-as-path route (server.tsx)                                           *)

\* the page-global selectors of /^(html|body|:root)(\s|$|,)/
GlobalTokens == {"html", "body", ":root"}

\* trimmed.match(/^(html|body|:root)(\s|$|,)/): the token matched, "" if none
globalToken(trimmed) ==
    LET hits == {t \in GlobalTokens :
                    /\ startsWith(trimmed, t)
                    /\ \/ Len(trimmed) = Len(t)
                       \/ SubSeq(trimmed, Len(t) + 1, Len(t) + 1) \in {" ", ","}}
    IN IF hits = {} THEN "" ELSE CHOOSE t \in hits : TRUE

\* a scopeSelector that prefixes every selector, page-global ones too
scopeSelectorPrefixOnly(selector) ==
    IF includes(trim(selector), "#content") THEN selector
    ELSE "#content " \o selector

\* scopeSelector(selector)
scopeSelector(selector) ==
    LET trimmed == trim(selector)
    IN IF includes(trimmed, "#content") THEN selector
       ELSE IF globalToken(trimmed) # ""
            THEN "#content" \o sliceFrom(trimmed, Len(globalToken(trimmed)))
       ELSE "#content " \o selector

\* the callback of extractedCSS.split('\n').map(...)
scopeLine(line) ==
    LET t == trim(line)
    IN IF t = "" \/ startsWith(t, "/*") THEN line
       ELSE IF startsWith(t, "@media") \/ startsWith(t, "@supports") THEN line
       ELSE IF includes(line, "{") /\ ~ startsWith(t, "@")
            THEN LET parts     == split(line, "{")
                     selectors == split(parts[1], ",")
                     rules     == join(Tail(parts), "{")
                 IN join([k \in 1..Len(selectors) |-> scopeSelector(selectors[k])], ", ")
                       \o " { " \o rules
       ELSE line

\* scopedCSS, by lines
scopedCSS(lines) == [k \in 1..Len(lines) |-> scopeLine(lines[k])]

\* selectors of the rules of the page
PageSelectors ==
    { "body", "html", ":root", ".foo", "div > p", "body > p", "body.dark a",
      "#content p", "#contents a" }

\* the selector lists of the rules: one selector, or two
SelectorLists ==
    {<<a>> : a \in PageSelectors} \cup {<<a, b>> : a, b \in PageSelectors}

\* the extracted CSS of a page: one rule on one line, or one of a few
\* sheets with at-rules, comments and blank lines
StyleSheets ==
    { <<join(sels, ", ") \o " { color: red }">> : sels \in SelectorLists }
    \cup
    { <<".foo, html { x: 1 }">>,
      <<".foo,.bar{x:1}">>,
      <<"/* Stylesheet 1 */", "", "a { b: c }">>,
      <<"@media (min-width: 600px) {", "  body { margin: 0 }", "  .foo { x: 1 }", "}">>,
      <<"@supports (display: grid) {", "  html { display: grid }", "}">>,
      <<"@font-face { font-family: F }", "h1,", "h2 { font-family: F }">> }

\* getPageData returned the page with cssInfo.extractedCSS
ExtractCss(sheet) ==
    /\ css = NoCss
    /\ css' = [lines |-> sheet, out |-> <<>>]
    /\ UNCHANGED <<regVars, pipeVars, shutVars, ai, match, img>>
    /\ UNCHANGED appVars

\* the handler builds scopedCSS from extractedCSS
ScopeCss ==
    /\ css.lines # <<>>
    /\ css.out = <<>>
    /\ css' = [css EXCEPT !.out = scopedCSS(css.lines)]
    /\ UNCHANGED <<regVars, pipeVars, shutVars, ai, match, img>>
    /\ UNCHANGED appVars

CssNext ==
    \/ \E sheet \in StyleSheets : ExtractCss(sheet)
    \/ ScopeCss

SpecCss == Init /\ [][CssNext]_vars

----------------------------------------------------------------------------
(* renderer.process on a PageData (default-, wikipedia-, arxiv-,            *)
(* ai-renderer.ts): what it does to pageData.metadata                       *)

\* pageData.metadata before the renderers run
Metadatas ==
    { [title |-> t, excerpt |-> Absent, description |-> Absent] : t \in {Absent, "Old title"} }

\* the pages by what the renderers look for in pageData.html: kind "wiki"
\* has #mw-content-text .mw-parser-output, kind "arxiv" article.ltx_document;
\* heading is the text of #firstHeading or .ltx_title, para the text of the
\* first long paragraph or of .ltx_abstract
PageDatas ==
    { [kind |-> k, heading |-> h, para |-> q, metadata |-> m] :
        k \in {"plain", "wiki", "arxiv"}, h \in {Absent, "", "Cat"},
        q \in {Absent, "A long paragraph"}, m \in Metadatas }

\* the names of the renderers of the repository
RendererNames ==
    {DefaultRenderer.name, WikipediaRenderer.name, ArxivRenderer.name, AIRenderer.name}

\* pageData.metadata after WikipediaRenderer.process
wikipediaMetadata(pd) ==
    LET titled == IF pd.heading = Absent THEN pd.metadata
                  ELSE [pd.metadata EXCEPT !.title =
                           IF pd.heading # "" THEN pd.heading
                           ELSE IF pd.metadata.title # Absent THEN pd.metadata.title ELSE ""]
    IN IF pd.para = Absent THEN titled ELSE [titled EXCEPT !.excerpt = pd.para]

\* pageData.metadata after ArxivRenderer.process
arxivMetadata(pd) ==
    LET titled == IF pd.heading = Absent THEN pd.metadata
                  ELSE [pd.metadata EXCEPT !.title = pd.heading]
    IN IF pd.para = Absent THEN titled ELSE [titled EXCEPT !.description = pd.para]

\* pageData as renderer.process(pageData, sourceUrl) leaves it: the default
\* and the AI renderer only read it, the other two assign to its metadata
\* when the page has their content element
processedPageData(name, pd) ==
    IF name = WikipediaRenderer.name /\ pd.kind = "wiki"
    THEN [pd EXCEPT !.metadata = wikipediaMetadata(pd)]
    ELSE IF name = ArxivRenderer.name /\ pd.kind = "arxiv"
    THEN [pd EXCEPT !.metadata = arxivMetadata(pd)]
    ELSE pd

\* renderer.process(pageData, sourceUrl) runs
Process(name, pd) ==
    /\ render' = [renderer |-> name, before |-> pd,
                  after |-> processedPageData(name, pd),
                  out |-> processedPageData(name, pd).metadata]
    /\ UNCHANGED <<regVars, pipeVars, shutVars, contentVars, authVars, link, ui>>

RenderNext ==
    \E name \in RendererNames, pd \in PageDatas : Process(name, pd)

SpecRender == Init /\ [][RenderNext]_vars

----------------------------------------------------------------------------
(* src/auth.ts and the /auth routes of server.tsx: passkey registration     *)
(* and sessions                                                             *)

\* crypto.randomUUID() for a session id: an id no session had before
nextSession == 1 + Cardinality({ i \in SessionIds : issued[i].createdAt >= 0 })

\* the challenge of generateRegistrationOptions: a value not issued before
nextChallenge == 1 + Cardinality(UNION { known[p] : p \in Clients })

\* createSession(userId): the sessions map after the call
createSession(ss, userId) ==
    [ss EXCEPT ![nextSession] = [userId |-> userId, expiresAt |-> now + SessionTicks]]

\* getSession without the expiry test
getSessionNeverExpires(ss, sessionId) ==
    IF sessionId \notin SessionIds \/ ss[sessionId] = NoSession
    THEN [found |-> FALSE, sessions |-> ss]
    ELSE [found |-> TRUE, sessions |-> ss]

\* getSession(sessionId): whether a session is returned, and the map afterwards
getSession(ss, sessionId) ==
    IF sessionId \notin SessionIds \/ ss[sessionId] = NoSession
    THEN [found |-> FALSE, sessions |-> ss]
    ELSE IF ss[sessionId].expiresAt < now
         THEN [found |-> FALSE, sessions |-> [ss EXCEPT ![sessionId] = NoSession]]
         ELSE [found |-> TRUE, sessions |-> ss]

\* deleteSession(sessionId)
deleteSession(ss, sessionId) ==
    IF sessionId \in SessionIds THEN [ss EXCEPT ![sessionId] = NoSession] ELSE ss

\* POST /auth/register/start by client p for username u
RegisterStart(p, u) ==
    /\ nextChallenge <= MaxChallenges
    /\ users' = [users EXCEPT ![u].exists = TRUE]
    /\ challenges' = [challenges EXCEPT ![u] = nextChallenge]
    /\ known' = [known EXCEPT ![p] = @ \cup {nextChallenge}]
    /\ authOut' = [NoAuthOut EXCEPT !.op = "register/start", !.by = p, !.username = u,
                                    !.at = now, !.status = 200,
                                    !.before = users[u].credentials]
    /\ UNCHANGED <<sessions, now, issued>>
    /\ UNCHANGED <<regVars, pipeVars, shutVars, contentVars, render, link, ui>>

\* POST /auth/register/finish by client p for username u, with a response that
\* p's authenticator made for challenge c
RegisterFinish(p, u, c) ==
    /\ nextSession <= MaxSessions
    /\ challenges' = [challenges EXCEPT ![u] = 0]
    /\ IF users[u].exists /\ challenges[u] # 0 /\ c = challenges[u]
       THEN /\ users' = [users EXCEPT ![u].credentials = @ \cup {p}]
            /\ sessions' = createSession(sessions, u)
            /\ issued' = [issued EXCEPT ![nextSession].createdAt = now]
            /\ authOut' = [NoAuthOut EXCEPT !.op = "register/finish", !.by = p,
                                            !.username = u, !.id = nextSession,
                                            !.at = now, !.status = 200,
                                            !.before = users[u].credentials]
       ELSE /\ authOut' = [NoAuthOut EXCEPT !.op = "register/finish", !.by = p,
                                            !.username = u, !.at = now, !.status = 500,
                                            !.before = users[u].credentials]
            /\ UNCHANGED <<users, sessions, issued>>
    /\ UNCHANGED <<now, known>>
    /\ UNCHANGED <<regVars, pipeVars, shutVars, contentVars, render, link, ui>>

\* POST /auth/logout with the cookie session=id (0 = no cookie)
Logout(id) ==
    /\ sessions' = IF id # 0 THEN deleteSession(sessions, id) ELSE sessions
    /\ issued' = IF id \in SessionIds /\ issued[id].createdAt >= 0
                 THEN [issued EXCEPT ![id].deleted = TRUE] ELSE issued
    /\ authOut' = [NoAuthOut EXCEPT !.op = "logout", !.id = id, !.at = now, !.status = 200]
    /\ UNCHANGED <<users, challenges, now, known>>
    /\ UNCHANGED <<regVars, pipeVars, shutVars, contentVars, render, link, ui>>

\* a request to a protected endpoint with the cookie session=id, AUTH_ENABLED:
\* requireAuth -> isAuthenticated -> getSession
Access(id) ==
    /\ sessions' = getSession(sessions, id).sessions
    /\ authOut' = [NoAuthOut EXCEPT !.op = "access", !.id = id, !.at = now,
                                    !.accepted = getSession(sessions, id).found,
                                    !.status = IF getSession(sessions, id).found
                                               THEN 200 ELSE 401]
    /\ UNCHANGED <<users, challenges, now, issued, known>>
    /\ UNCHANGED <<regVars, pipeVars, shutVars, contentVars, render, link, ui>>

\* time passes
Tick ==
    /\ now < MaxTime
    /\ now' = now + 1
    /\ UNCHANGED <<users, sessions, challenges, issued, known, authOut>>
    /\ UNCHANGED <<regVars, pipeVars, shutVars, contentVars, render, link, ui>>

AuthNext ==
    \/ \E p \in Clients, u \in Usernames : RegisterStart(p, u)
    \/ \E p \in Clients, u \in Usernames, c \in 1..MaxChallenges :
           c \in known[p] /\ RegisterFinish(p, u, c)
    \/ \E id \in 0..MaxSessions : Logout(id)
    \/ \E id \in 0..MaxSessions : Access(id)
    \/ Tick

SpecAuth == Init /\ [][AuthNext]_vars

----------------------------------------------------------------------------
(* transformLinksToHtmx (html-processing)                                   *)

\* the characters encodeURIComponent escapes, among those of the hrefs
\* considered
EscapeOf == [c \in {":", "/", "#", "?", "@", " "} |->
               CASE c = ":" -> "%3A" [] c = "/" -> "%2F" [] c = "#" -> "%23"
                 [] c = "?" -> "%3F" [] c = "@" -> "%40" [] c = " " -> "%20"]

RECURSIVE encodeURIComponent(_)
encodeURIComponent(s) ==
    IF Len(s) = 0 THEN ""
    ELSE LET c == SubSeq(s, 1, 1)
         IN (IF c \in DOMAIN EscapeOf THEN EscapeOf[c] ELSE c)
                \o encodeURIComponent(sliceFrom(s, 1))

\* whether new URL(href, baseUrl) succeeds: an href with a scheme has to
\* parse by itself, any other is resolved against the base
hrefResolves(href, baseUrl) ==
    IF includes(href, "://") THEN UrlParses(href) ELSE UrlParses(baseUrl)

\* new URL(href, baseUrl).href: an absolute URL without a path gets "/"
absoluteHref(href, baseUrl) ==
    IF includes(href, "://")
    THEN IF includes(AfterScheme(href), "/") THEN href
         ELSE LET hash == indexOf(href, "#")
              IN IF hash = 0 THEN href \o "/"
                 ELSE SubSeq(href, 1, hash - 1) \o "/" \o sliceFrom(href, hash - 1)
    ELSE resolveUrl(href, split(baseUrl, "#")[1])

\* the branch for a link into the current page: href becomes the fragment
fragmentOnly(anchor, absoluteUrl) ==
    [anchor EXCEPT !.href = "#" \o split(absoluteUrl, "#")[2]]

\* the branch that adds the htmx attributes
htmxLink(anchor, absoluteUrl) ==
    [href |-> absoluteUrl,
     hxGet |-> "/render?q=" \o encodeURIComponent(absoluteUrl),
     hxTarget |-> "#content",
     hxIndicator |-> "#loading",
     hxPushUrl |-> "false"]

\* the callback of querySelectorAll('a[href]').forEach on one anchor
transformLinksToHtmx(anchor, baseUrl) ==
    LET href == anchor.href
    IN IF href = "" THEN anchor
       ELSE IF \/ startsWith(href, "mailto:") \/ startsWith(href, "tel:")
               \/ startsWith(href, "javascript:") \/ startsWith(href, "#")
       THEN anchor
       ELSE IF ~ hrefResolves(href, baseUrl) THEN anchor
       ELSE LET absoluteUrl == absoluteHref(href, baseUrl)
            IN IF /\ split(absoluteUrl, "#")[1] = split(baseUrl, "#")[1]
                  /\ includes(absoluteUrl, "#")
               THEN fragmentOnly(anchor, absoluteUrl)
               ELSE htmxLink(anchor, absoluteUrl)

\* the URLs of the pages whose links are transformed
LinkBaseUrls ==
    {"https://a.com/p", "https://a.com/p#top", "https://a.com/d/", "https://b.org/q"}

\* href attributes of the anchors of a page
Hrefs ==
    {"", "mailto:x@a.com", "tel:1", "javascript:void(0)", "#top",
     "https://a.com/p#s", "https://a.com/p", "https://b.org/q", "https://b.org",
     "/q", "p#s", "q", "http://", "https://a.com/p#"}

\* the anchors of a page: a page may carry hx-get attributes of its own
Anchors ==
    { [NoAnchor EXCEPT !.href = h, !.hxGet = g] : h \in Hrefs, g \in {Absent, "/x"} }

TransformLinks(anchor, baseUrl) ==
    /\ link' = [base |-> baseUrl, before |-> anchor,
                after |-> transformLinksToHtmx(anchor, baseUrl)]
    /\ UNCHANGED <<regVars, pipeVars, shutVars, contentVars, render, authVars, ui>>

LinksNext ==
    \E a \in Anchors, b \in LinkBaseUrls : TransformLinks(a, b)

SpecLinks == Init /\ [][LinksNext]_vars

----------------------------------------------------------------------------
(* frontend.tsx: the navigation history of ConverterApp                     *)

\* "Keep only last 10 URLs in history" and the cap of historyIndex
HistoryLimit == 10
IndexCap == 9
\* the fetches of goBack / goForward that may be outstanding at once
MaxPending == 1

\* the value of #urlInput when a request completes
PageUrl == "https://a.com/p"

Min(a, b) == IF a < b THEN a ELSE b

\* prev.slice(0, end)
sliceTo(seq, end) == SubSeq(seq, 1, Min(end, Len(seq)))

\* the updater passed to setHistory, with historyIndex as the callback
\* closed over it
newHistory(prev, historyIndex, url) ==
    LET pushed == sliceTo(prev, historyIndex + 1) \o <<url>>
    IN IF Len(pushed) > HistoryLimit THEN Tail(pushed) ELSE pushed

\* React renders the component again: the callbacks close over the state
Rerender ==
    /\ ui.rendered # [history |-> ui.history, historyIndex |-> ui.historyIndex]
    /\ ui' = [ui EXCEPT !.rendered = [history |-> ui.history,
                                      historyIndex |-> ui.historyIndex]]
    /\ UNCHANGED <<regVars, pipeVars, shutVars, contentVars, render, authVars, link>>

\* htmx:afterRequest -> handleAfterRequest
handleAfterRequest(url) ==
    /\ ui' = [ui EXCEPT !.history = newHistory(@, ui.rendered.historyIndex, url),
                        !.historyIndex = Min(@ + 1, IndexCap)]
    /\ UNCHANGED <<regVars, pipeVars, shutVars, contentVars, render, authVars, link>>

\* the Back button: the page comes from the cache, or a fetch is started
goBack(cached) ==
    /\ ~ (ui.rendered.historyIndex <= 0)
    /\ IF cached
       THEN ui' = [ui EXCEPT !.historyIndex = ui.rendered.historyIndex - 1]
       ELSE /\ Cardinality(ui.pending) < MaxPending
            /\ ui' = [ui EXCEPT !.pending = @ \cup {ui.rendered.historyIndex - 1}]
    /\ UNCHANGED <<regVars, pipeVars, shutVars, contentVars, render, authVars, link>>

\* the Forward button
goForward(cached) ==
    /\ ~ (ui.rendered.historyIndex >= Len(ui.rendered.history) - 1)
    /\ IF cached
       THEN ui' = [ui EXCEPT !.historyIndex = ui.rendered.historyIndex + 1]
       ELSE /\ Cardinality(ui.pending) < MaxPending
            /\ ui' = [ui EXCEPT !.pending = @ \cup {ui.rendered.historyIndex + 1}]
    /\ UNCHANGED <<regVars, pipeVars, shutVars, contentVars, render, authVars, link>>

\* the fetch of goBack / goForward resolves: setHistoryIndex(newIndex)
RefetchResolves(newIndex) ==
    /\ newIndex \in ui.pending
    /\ ui' = [ui EXCEPT !.historyIndex = newIndex, !.pending = @ \ {newIndex}]
    /\ UNCHANGED <<regVars, pipeVars, shutVars, contentVars, render, authVars, link>>

UiNext ==
    \/ Rerender
    \/ handleAfterRequest(PageUrl)
    \/ \E cached \in BOOLEAN : goBack(cached)
    \/ \E cached \in BOOLEAN : goForward(cached)
    \/ \E i \in 0..IndexCap : RefetchResolves(i)

SpecUi == Init /\ [][UiNext]_vars

RegNext ==
    \/ \E r \in Candidates : Register(r)
    \/ \E u \in Urls : SelectRenderer(u)

SpecRegistry == Init /\ [][RegNext]_vars

----------------------------------------------------------------------------
(* Properties of the registry                                               *)

\* some pattern of renderer r matches url
AnyPatternMatches(r, url) ==
    \E j \in 1..Len(r.patterns) : matchesPattern(url, r.patterns[j])

Selecting == selUrl # ""

\* C1 as stated: selectRenderer returns the fallback iff no pattern of any
\* registered renderer of priority >= the fallback's matches the URL
C1_AsStated ==
    Selecting =>
        (selected = DefaultRenderer.name
           <=> ~ \E i \in 1..Len(renderers) :
                    /\ PriorityOf(renderers[i]) >= PriorityOf(DefaultRenderer)
                    /\ AnyPatternMatches(renderers[i], selUrl))

\* C1 (amended): selectRenderer returns the fallback renderer iff no pattern
\* of any registered renderer, whatever its priority, matches the URL
C1_FallbackIffNoMatch ==
    Selecting =>
        (selected = DefaultRenderer.name
           <=> ~ \E i \in 1..Len(renderers) : AnyPatternMatches(renderers[i], selUrl))

\* the fallback is returned although renderers are registered, one of them
\* with a priority below the fallback's
C1_Witness ==
    /\ Selecting
    /\ selected = DefaultRenderer.name
    /\ Len(renderers) >= 3
    /\ \E i \in 1..Len(renderers) :
          PriorityOf(renderers[i]) < PriorityOf(DefaultRenderer)

\* position of a name in the registration history
RegPos(name) == CHOOSE k \in 1..Len(regOrder) : regOrder[k] = name

\* the (renderer, pattern) pairs of getAll() that match url
MatchingPairs(url) ==
    { p \in (1..(Len(renderers) + 1)) \X (1..2) :
        /\ p[2] <= Len(getAll(renderers)[p[1]].patterns)
        /\ matchesPattern(url, getAll(renderers)[p[1]].patterns[p[2]]) }

PairBefore(p, q) == p[1] < q[1] \/ (p[1] = q[1] /\ p[2] <= q[2])

\* C2: the list is in descending priority, ties in registration order, every
\* registered renderer is in it and the fallback comes last; selectRenderer
\* returns the renderer of the first matching (renderer, pattern) pair
C2_OrderedFirstMatchWins ==
    /\ \A i, j \in 1..Len(renderers) :
          i < j => /\ PriorityOf(renderers[i]) >= PriorityOf(renderers[j])
                   /\ PriorityOf(renderers[i]) = PriorityOf(renderers[j])
                        => RegPos(renderers[i].name) < RegPos(renderers[j].name)
    /\ {renderers[i].name : i \in 1..Len(renderers)}
          = {regOrder[k] : k \in 1..Len(regOrder)}
    /\ Len(renderers) = Len(regOrder)
    /\ getAll(renderers)[Len(renderers) + 1] = DefaultRenderer
    /\ Selecting =>
          \A p \in MatchingPairs(selUrl) :
              (\A q \in MatchingPairs(selUrl) : PairBefore(p, q))
                 => /\ selected = getAll(renderers)[p[1]].name
                    /\ p[1] <= Len(renderers) => selPair = p

\* the sort moved a renderer in front of one registered earlier, kept two
\* renderers of equal priority in registration order, and a selection
\* matched on a second pattern
C2_Witness ==
    /\ Len(renderers) = 3
    /\ renderers[1].name # regOrder[1]
    /\ PriorityOf(renderers[1]) = PriorityOf(renderers[2])
    /\ Selecting
    /\ selPair = <<2, 2>>

----------------------------------------------------------------------------
(* Properties of the shared browser and of getPageData                      *)

\* the browser processes puppeteer.launch has started and that did not fail
LiveBrowsers == {b \in 1..Len(browsers) : browsers[b] \in {"starting", "running"}}

\* C3: at most one browser process is ever launched, and all pages of all
\* requests are opened on that one instance
C3_SingleBrowserProcess ==
    /\ Cardinality(LiveBrowsers) <= 1
    /\ \A r1, r2 \in Reqs :
          (call[r1].page # "none" /\ call[r2].page # "none")
             => call[r1].browser = call[r2].browser

InGetPageData(r) == pc[r] \in {"launch", "newPage", "goto", "wait", "evaluate", "close"}

NoRequestInFlight == \A r \in Reqs : ~ InGetPageData(r)

\* C4: page.close() is called for every page a getPageData invocation
\* opened, whether it returns or throws; what it throws is the error its try
\* block caught and what it returns is the PageData, also when the close
\* was rejected (which is only logged); with no invocation in flight no
\* opened page is left without its close
C4_PageClosedOnEveryExit ==
    /\ \A r \in Reqs :
          /\ stats[r].closeCalls =
                IF pc[r] \in {"goto", "wait", "evaluate"}
                THEN stats[r].opened - 1 ELSE stats[r].opened
          /\ call[r].page = "open" => pc[r] \in {"goto", "wait", "evaluate", "close"}
          /\ (pc[r] = "done" /\ call[r].page # "none") =>
                /\ call[r].page \in {"closed", "closeFailed"}
                /\ result[r].kind = "error" =>
                      (call[r].err # "none" /\ result[r].error = call[r].err)
                /\ result[r].kind = "data" => call[r].err = "none"
                /\ result[r].kind \in {"error", "data"}
    /\ NoRequestInFlight =>
          \A r \in Reqs : /\ call[r].page # "open"
                          /\ stats[r].closeCalls = stats[r].opened

\* one invocation threw its navigation error and another returned its data,
\* both after a rejected page.close()
C4_Witness ==
    /\ NoRequestInFlight
    /\ \E r \in Reqs :
          /\ result[r].kind = "error"
          /\ result[r].error = "navigation"
          /\ call[r].page = "closeFailed"
          /\ stats[r].closeLogged = 1
    /\ \E r \in Reqs :
          /\ result[r].kind = "data"
          /\ call[r].page = "closeFailed"

----------------------------------------------------------------------------
(* Properties of the fetch strategy and of the handlers                     *)

Entered(r) == req[r].route # "none"

\* the hostname of url is one of the listed domains
HostInKnownSet(url) == UrlParses(url) /\ UrlHostname(url) \in JS_REQUIRED_DOMAINS

\* C5: with forceBrowser or an extended-extraction option set, or a hostname
\* in the known-JS-required set, no lightweight HTTP request is issued
C5_NoLightweightWhenBrowserRequired ==
    \A r \in Reqs :
        (Entered(r) /\ (\/ req[r].opts.forceBrowser
                        \/ req[r].opts.extractVisibility
                        \/ req[r].opts.extractImages
                        \/ req[r].opts.extractCss
                        \/ HostInKnownSet(req[r].url)))
           => (stats[r].http = 0 /\ lw[r].kind = "none")

\* a request for a known-JS-required host, made without options, was
\* answered from the browser
C5_Witness ==
    \E r \in Reqs :
        /\ HostInKnownSet(req[r].url)
        /\ req[r].opts = NoOpts
        /\ req[r].route = "render"
        /\ result[r].method = "chrome"
        /\ stats[r].gpd = 1

\* s contains t when letter case is ignored
ContainsIgnoringCase(s, t) ==
    \E i \in 1..(Len(s) - Len(t) + 1) :
        \A k \in 1..Len(t) :
            LowerChar(SubSeq(s, i + k - 1, i + k - 1)) = LowerChar(SubSeq(t, k, k))

HasJsGate(html) == \E indicator \in jsIndicators : ContainsIgnoringCase(html, indicator)

GatedLightweight(r) == lw[r].kind = "html" /\ HasJsGate(lw[r].html)

\* C6: when the lightweight markup contains a JS-gate indicator in any letter
\* case, the browser is called and any data returned is the browser's
\* (method "chrome"), never the lightweight markup
C6_JsGateEscalates ==
    \A r \in Reqs :
        GatedLightweight(r) =>
            /\ stats[r].gpd >= 1
            /\ result[r].kind = "data" =>
                  /\ result[r].method = "chrome"
                  /\ result[r].html = BrowserHtml
                  /\ result[r].html # lw[r].html

\* "Please enable JavaScript" came back and the browser's page was returned
C6_Witness ==
    \E r \in Reqs :
        /\ lw[r].html = "<p>Please enable JavaScript</p>"
        /\ result[r].kind = "data"
        /\ result[r].method = "chrome"

LightweightFailed(r) == lw[r].kind \in {"network", "httpTimeout", "status"}

\* C7: after a failed lightweight attempt the browser is called; data
\* returned is the browser's, and an error reaches the caller only as the
\* error of that failed browser fetch
C7_LightweightFailureEscalates ==
    \A r \in Reqs :
        LightweightFailed(r) =>
            /\ stats[r].gpd = 1
            /\ result[r].kind = "data" => result[r].method = "chrome"
            /\ result[r].kind = "error" =>
                  /\ call[r].err # "none"
                  /\ result[r].error = call[r].err

\* a non-2xx lightweight answer, then the browser's data; or then the
\* browser's navigation error
C7_Witness ==
    \E r \in Reqs :
        /\ lw[r].kind = "status"
        /\ req[r].route = "markdown"
        /\ result[r].kind = "error"
        /\ result[r].error = "navigation"

\* C8: a lightweight response that is not HTML makes the fetch fail with the
\* nonHtml error, and no browser fetch is attempted
C8_NonHtmlFailsFast ==
    \A r \in Reqs :
        lw[r].kind = "nonHtml" =>
            /\ stats[r].gpd = 0
            /\ result[r].kind = "error"
            /\ result[r].error = "nonHtml"

Handlers == {"render", "path", "markdown"}

\* C9: for a request whose target URL does not parse, no lightweight HTTP
\* request is issued and no browser page is opened
C9_InvalidUrlNoNetwork ==
    \A r \in Reqs :
        (req[r].route \in Handlers /\ ~ UrlParses(req[r].url))
           => (stats[r].http = 0 /\ stats[r].opened = 0)

PipelineErrorAnswered(r) ==
    pc[r] = "done" /\ req[r].route \in Handlers /\ resp[r].threw # "none"

\* C10 as stated: on all three routes an error thrown by a pipeline stage is
\* answered with HTTP 200 and an error-describing fragment
C10_AsStated ==
    \A r \in Reqs :
        PipelineErrorAnswered(r) =>
            (resp[r].status = 200 /\ resp[r].body \in {"errorFragment", "errorPage"})

\* C10 (amended): GET /render and the URL-as-path route answer an error of
\* any pipeline stage with HTTP 200 and an error-describing fragment or
\* page; GET /markdown answers it with HTTP 500 and a JSON error body
C10_ErrorResponses ==
    \A r \in Reqs :
        PipelineErrorAnswered(r) =>
            CASE req[r].route = "render" ->
                   resp[r].status = 200 /\ resp[r].body = "errorFragment"
              [] req[r].route = "path" ->
                   resp[r].status = 200 /\ resp[r].body = "errorPage"
              [] OTHER ->
                   resp[r].status = 500 /\ resp[r].body = "errorJson"

\* renderer.format threw on the URL-as-path route and the page was answered
C10_Witness ==
    \E r \in Reqs :
        /\ PipelineErrorAnswered(r)
        /\ req[r].route = "path"
        /\ resp[r].threw = "format"
        /\ resp[r].status = 200

----------------------------------------------------------------------------
(* Properties of the shutdown                                               *)

\* number of close() calls made on browser b
CloseCallsOn(b) == Cardinality({k \in 1..Len(closeLog) : closeLog[k] = b})

\* C11: over any sequence of termination signals, close() is called at most
\* once on a browser instance, and when the process has exited no browser
\* whose launch succeeded is left without having been closed
C11_BrowserClosedExactlyOnce ==
    /\ \A b \in 1..Len(browsers) : CloseCallsOn(b) <= 1
    /\ exited => \A b \in 1..Len(browsers) : browsers[b] # "running"

\* C12: a handler whose signal arrived with a request in flight calls
\* closeBrowser, and exits the process, only after the grace period has run
C12_GraceBeforeClose ==
    \A i \in 1..Len(sigs) :
        (sigs[i].inflight /\ sigs[i].pc \in {"closing", "done"}) => sigs[i].waited

----------------------------------------------------------------------------
(* Properties of AIRenderer.process                                         *)

\* the output of the pipeline without the AI step
NonAIOutput(html) == finalHtml(htmlToMarkdown(cleanHtml(html)))

\* C13: process never throws, and whenever one of its steps failed
\* (conversion to Markdown, the API call, the timeout, marked) it returns
\* the output of the pipeline without the AI step
C13_AIProcessNeverRaises ==
    ai.pc = "done" =>
        /\ ai.raised = "none"
        /\ ai.failed # "none" => ai.out = NonAIOutput(ai.html)

----------------------------------------------------------------------------
(* Properties of matchesPattern                                             *)

\* every pattern of the fallback and of the candidate renderers
AllPatterns ==
    UNION { {r.patterns[j] : j \in 1..Len(r.patterns)} : r \in Candidates \cup {DefaultRenderer} }

\* C14: for a URL that does not parse, no pattern matches, "*" included,
\* and selectRenderer returns the fallback renderer
C14_UnparseableUrlFallsBack ==
    (Selecting /\ ~ UrlParses(selUrl)) =>
        /\ \A p \in AllPatterns : ~ matchesPattern(selUrl, p)
        /\ selected = DefaultRenderer.name
        /\ selPair = <<0, 0>>

C14_Witness ==
    /\ Selecting
    /\ ~ UrlParses(selUrl)
    /\ \E i \in 1..Len(renderers) : Len(renderers[i].patterns) > 0
    /\ selected = DefaultRenderer.name

\* matchesPattern was called
Matched == match.pattern # ""

\* t is a suffix of s
IsSuffix(t, s) == \E k \in 1..(Len(s) + 1) : SubSeq(s, k, Len(s)) = t

\* t is a prefix of s
IsPrefix(t, s) == \E k \in 0..Len(s) : SubSeq(s, 1, k) = t

\* the characters of s before its first "."
LabelBeforeDot(s) ==
    LET ends == {k \in 1..Len(s) : SubSeq(s, k, k) = "."}
    IN IF ends = {} THEN s
       ELSE SubSeq(s, 1, (CHOOSE k \in ends : \A m \in ends : k <= m) - 1)

HasSlash(p) == \E k \in 1..Len(p) : SubSeq(p, k, k) = "/"

\* the call is the given one and its result the expected one
MatchExample(url, pattern, expected) ==
    (match.url = url /\ match.pattern = pattern) => match.result = expected

\* C15: for a pattern without "/" (other than "*") and a URL that parses,
\* the result is TRUE exactly when the lower-cased hostname equals the
\* pattern, or the pattern is *.suffix and the hostname ends with .suffix,
\* or the pattern is prefix.* and the first label of the hostname is prefix
C15_HostnamePatterns ==
    /\ (Matched /\ UrlParses(match.url) /\ ~ HasSlash(match.pattern) /\ match.pattern # "*") =>
          LET host == toLowerCase(UrlHostname(match.url))
              pat  == toLowerCase(match.pattern)
              n    == Len(pat)
          IN match.result <=>
                \/ host = pat
                \/ /\ n >= 2 /\ SubSeq(pat, 1, 2) = "*."
                   /\ IsSuffix(SubSeq(pat, 2, n), host)
                \/ /\ n >= 2 /\ SubSeq(pat, n - 1, n) = ".*"
                   /\ LabelBeforeDot(host) = SubSeq(pat, 1, n - 2)
    /\ MatchExample("https://a.example.com/", "*.example.com", TRUE)
    /\ MatchExample("https://notexample.com/", "*.example.com", FALSE)
    /\ MatchExample("https://example.org/", "example.*", TRUE)
    /\ MatchExample("https://myexample.com/", "example.*", FALSE)

C15_Witness ==
    /\ match.url = "https://example.org/"
    /\ match.pattern = "example.*"
    /\ match.result

\* C16: for a pattern with "/" and a URL that parses, the result is TRUE
\* exactly when lower-cased hostname+path equals the lower-cased pattern or
\* the pattern ends with "/*" and what precedes "/*" is a prefix of
\* hostname+path; the hostname-only rules play no part
C16_PathPatterns ==
    /\ (Matched /\ UrlParses(match.url) /\ HasSlash(match.pattern)) =>
          LET full == toLowerCase(UrlHostname(match.url)) \o toLowerCase(UrlPathname(match.url))
              pat  == toLowerCase(match.pattern)
              n    == Len(pat)
          IN match.result <=>
                \/ full = pat
                \/ /\ n >= 2 /\ SubSeq(pat, n - 1, n) = "/*"
                   /\ IsPrefix(SubSeq(pat, 1, n - 2), full)
    /\ MatchExample("https://host.io/path/anything", "host.io/path/*", TRUE)
    /\ MatchExample("https://host.io/other", "host.io/path/*", FALSE)
    /\ MatchExample("https://A.Example.com/x", "*.example.com/x", FALSE)
    /\ MatchExample("https://host.io/path", "host.*/path", FALSE)

C16_Witness ==
    /\ match.url = "https://host.io/path/anything"
    /\ match.pattern = "host.io/path/*"
    /\ match.result

----------------------------------------------------------------------------
(* Properties of the Markdown conversion                                    *)

\* C17: after a failed startup health check no GET /markdown request sends
\* anything to the conversion service and none succeeds; a request that
\* gets as far as the conversion is answered with the service-unavailable
\* error (one whose fetch or renderer failed before, with that error)
C17_UnavailableConversionFailsFast ==
    \A r \in Reqs :
        (pandocAvailable = "no" /\ req[r].route = "markdown") =>
            /\ stats[r].convert = 0
            /\ (pc[r] = "done" /\ req[r].url # "") =>
                  /\ resp[r].status = 500
                  /\ resp[r].threw \in {"fetch", "process", "unavailable"}
                  /\ result[r].kind = "data" /\ resp[r].threw # "process"
                        => resp[r].threw = "unavailable"

C17_Witness ==
    \E r \in Reqs :
        /\ pandocAvailable = "no"
        /\ req[r].route = "markdown"
        /\ pc[r] = "done"
        /\ result[r].kind = "data"
        /\ resp[r].threw = "unavailable"
        /\ resp[r].status = 500
        /\ stats[r].convert = 0

----------------------------------------------------------------------------
(* Properties of transformImagesToAbsolute                                  *)

\* C18: applying transformImagesToAbsolute to its own output changes
\* nothing, for src and for srcset, several candidates included
C18_TransformImagesIdempotent ==
    img.base # "" => img.twice = img.once

----------------------------------------------------------------------------
(* Properties of the CSS scoping                                            *)

\* the handler has built scopedCSS
Scoped == css.out # <<>>

\* a blank line, a comment line, or the prelude of @media / @supports
PassesThrough(line) ==
    \/ trim(line) = ""
    \/ IsPrefix("/*", trim(line))
    \/ IsPrefix("@media", trim(line))
    \/ IsPrefix("@supports", trim(line))

\* a line that carries the selector list of a style rule
IsRuleLine(line) ==
    /\ ~ PassesThrough(line)
    /\ ~ IsPrefix("@", trim(line))
    /\ \E k \in 1..Len(line) : SubSeq(line, k, k) = "{"

\* what precedes and what follows the first "{" of a rule line
BeforeBrace(line) == SubSeq(line, 1, indexOf(line, "{") - 1)
AfterBrace(line) == SubSeq(line, indexOf(line, "{") + 1, Len(line))

\* s with every run of blanks reduced to one blank
RECURSIVE Squeeze(_)
Squeeze(s) ==
    IF Len(s) < 2 THEN s
    ELSE IF SubSeq(s, 1, 2) = "  " THEN Squeeze(SubSeq(s, 2, Len(s)))
    ELSE SubSeq(s, 1, 1) \o Squeeze(SubSeq(s, 2, Len(s)))

\* the selectors of a rule line, without the blanks around them and with
\* single blanks inside
SelectorsOf(line) ==
    LET pieces == split(BeforeBrace(line), ",")
    IN [k \in 1..Len(pieces) |-> Squeeze(trim(pieces[k]))]

\* sel starts with the page-global token t as a whole token
LeadsWith(sel, t) ==
    /\ IsPrefix(t, sel)
    /\ Len(sel) = Len(t) \/ SubSeq(sel, Len(t) + 1, Len(t) + 1) = " "

\* the selector that the rules of scoping give for the selector sel
ScopedAs(sel) ==
    IF \E k \in 1..Len(sel) : IsPrefix("#content", SubSeq(sel, k, Len(sel))) THEN sel
    ELSE IF \E t \in GlobalTokens : LeadsWith(sel, t)
         THEN LET t == CHOOSE u \in GlobalTokens : LeadsWith(sel, u)
              IN "#content" \o SubSeq(sel, Len(t) + 1, Len(sel))
    ELSE "#content " \o sel

\* the rules of scoping, line by line and selector by selector, read up to
\* the number of blanks in and around the selectors and declarations
ScopingRules ==
    Scoped =>
        /\ Len(css.out) = Len(css.lines)
        /\ \A k \in 1..Len(css.lines) :
             LET line == css.lines[k]
                 out  == css.out[k]
             IN /\ ~ IsRuleLine(line) => out = line
                /\ IsRuleLine(line) =>
                     /\ IsRuleLine(out)
                     /\ Len(SelectorsOf(out)) = Len(SelectorsOf(line))
                     /\ \A i \in 1..Len(SelectorsOf(line)) :
                            SelectorsOf(out)[i] = ScopedAs(SelectorsOf(line)[i])
                     /\ trim(AfterBrace(out)) = trim(AfterBrace(line))

\* the sheet is the given one and the scoped CSS the expected one
ScopeExample(sheet, expected) ==
    (Scoped /\ css.lines = sheet) => css.out = expected

Anchored(sel) ==
    \/ sel = "#content"
    \/ IsPrefix("#content ", sel)
    \/ IsPrefix("#content>", sel)

\* C20: every selector of every style rule of the scoped CSS is anchored
\* at the content container
C20_ScopedCssStaysInContainer ==
    Scoped =>
        \A k \in 1..Len(css.out) :
            IsRuleLine(css.out[k]) =>
                \A i \in 1..Len(SelectorsOf(css.out[k])) :
                    Anchored(SelectorsOf(css.out[k])[i])

----------------------------------------------------------------------------
(* Properties of renderer.process                                           *)

\* C21: process leaves pageData.html and pageData.metadata as they were,
\* for every renderer
C21_PageDataImmutable ==
    render.renderer # "" => render.after = render.before

----------------------------------------------------------------------------
(* Properties of the choice of the AI renderer                              *)

\* the AI renderer is registered
AIRegistered == \E i \in 1..Len(renderers) : renderers[i].name = AIRenderer.name

----------------------------------------------------------------------------
(* Properties of sessions and of registration                               *)

\* the age of session id at the time of the last request, if it was created
AgeOf(id) == authOut.at - issued[id].createdAt

\* session id was created by createSession and logout has not deleted it
Live(id) == id \in SessionIds /\ issued[id].createdAt >= 0 /\ ~ issued[id].deleted

\* C23 as stated: a session id is accepted if and only if it was created, has
\* not been deleted by logout, and is less than 7 days old
C23_AsStated ==
    authOut.op = "access" =>
        (authOut.accepted <=> (Live(authOut.id) /\ AgeOf(authOut.id) < SessionTicks))

\* C23: a session id is accepted (no 401) if and only if it was created by
\* createSession, has not been deleted by logout, and is at most 7 days old
C23_SessionAccepted ==
    authOut.op = "access" =>
        /\ authOut.accepted <=> (Live(authOut.id) /\ AgeOf(authOut.id) <= SessionTicks)
        /\ authOut.accepted <=> authOut.status # 401

C23_Witness ==
    /\ authOut.op = "access"
    /\ authOut.accepted
    /\ Live(authOut.id)
    /\ AgeOf(authOut.id) = SessionTicks
    /\ \E i \in SessionIds : issued[i].deleted

\* C28: once a username has a registered credential, a registration ceremony
\* run by someone who holds none of that user's credentials does not add a
\* credential to the user and does not yield a session for the user
C28_NoTakeoverByRegistration ==
    (authOut.op = "register/finish" /\ authOut.before # {} /\ authOut.by \notin authOut.before)
        => /\ authOut.status # 200
           /\ authOut.by \notin users[authOut.username].credentials

----------------------------------------------------------------------------
(* Properties of transformLinksToHtmx                                       *)

\* the anchor has none of the hx-* attributes
NoHx(a) ==
    /\ a.hxGet = Absent /\ a.hxTarget = Absent
    /\ a.hxIndicator = Absent /\ a.hxPushUrl = Absent

\* text before the first "#", found by scanning
RECURSIVE BeforeHash(_)
BeforeHash(s) ==
    IF Len(s) = 0 \/ SubSeq(s, 1, 1) = "#" THEN ""
    ELSE SubSeq(s, 1, 1) \o BeforeHash(SubSeq(s, 2, Len(s)))

HasHash(s) == \E i \in 1..Len(s) : SubSeq(s, i, i) = "#"

\* the cases in which the claim leaves an anchor untouched
SkippedHref(href, base) ==
    \/ \E p \in {"mailto:", "tel:", "javascript:", "#"} : IsPrefix(p, href)
    \/ ~ hrefResolves(href, base)

\* the claim's case of a link into the current page
SamePageHref(href, base) ==
    /\ BeforeHash(absoluteHref(href, base)) = BeforeHash(base)
    /\ HasHash(absoluteHref(href, base))

\* C26: transformLinksToHtmx leaves every anchor untouched (skipped href),
\* or with a fragment-only href and no hx-* attribute (link into the page),
\* or with the absolute href and hx-get, hx-target, hx-indicator and
\* hx-push-url=false; no anchor gets a fragment-only href and an hx-get
C26_ThreeAnchorStates ==
    link # NoLink =>
        LET a == link.before
            b == link.after
        IN /\ IF SkippedHref(a.href, link.base) THEN b = a
              ELSE IF SamePageHref(a.href, link.base)
                   THEN IsPrefix("#", b.href) /\ NoHx(b)
                   ELSE /\ b.href = absoluteHref(a.href, link.base)
                        /\ b.hxGet # Absent /\ b.hxTarget = "#content"
                        /\ b.hxIndicator = "#loading" /\ b.hxPushUrl = "false"
           /\ b # a => ~ (IsPrefix("#", b.href) /\ b.hxGet # Absent)

----------------------------------------------------------------------------
(* Properties of the navigation history                                     *)

\* C27: after any sequence of completed page requests, back and forward
\* actions, the history holds at most 10 URLs and historyIndex stays within
\* -1 .. history.length - 1
C27_HistoryBounded ==
    /\ Len(ui.history) <= HistoryLimit
    /\ ui.historyIndex >= -1
    /\ ui.historyIndex <= Len(ui.history) - 1

----------------------------------------------------------------------------
(* Properties of timeouts in the browser path                               *)

\* C24: in getPageData a challenge wait that times out does not fail the
\* fetch: extraction proceeds and, unless extraction itself fails, PageData
\* is returned; a navigation that times out makes the fetch throw the timeout
\* to its caller, after page.close() has been called and has settled
C24_WaitTimeoutNonFatal ==
    \A r \in Reqs :
        /\ (pc[r] \in {"wait", "evaluate"}) => call[r].err = "none"
        /\ (pc[r] = "done" /\ call[r].waitTimedOut) =>
               /\ call[r].err \in {"none", "evaluate"}
               /\ call[r].err = "none" => result[r].kind = "data"
        /\ (pc[r] = "done" /\ call[r].err = "timeout") =>
               /\ result[r].kind = "error"
               /\ result[r].error = "timeout"
               /\ ~ call[r].waitTimedOut
               /\ stats[r].closeCalls = 1
               /\ call[r].page \in {"closed", "closeFailed"}

C24_Witness ==
    \E r, q \in Reqs :
        /\ pc[r] = "done" /\ call[r].waitTimedOut /\ result[r].kind = "data"
        /\ pc[q] = "done" /\ call[q].err = "timeout" /\ result[q].error = "timeout"

----------------------------------------------------------------------------
(* Properties of smartFetch's use of the browser                            *)

\* C25: a single fetch invokes the browser at most once; a failed browser
\* fetch is propagated to the caller and is never retried
C25_BrowserAtMostOnce ==
    \A r \in Reqs : stats[r].gpd <= 1

\* the hostname is a listed domain or a subdomain of one
ListedHost(h) ==
    \E d \in JS_REQUIRED_DOMAINS : h = d \/ IsSuffix("." \o d, h)

\* C29: the known-JS-required rule sends a URL directly to the browser only
\* when its hostname is a listed domain or a subdomain of one
C29_KnownJsOnlyListedDomains ==
    \A r \in Reqs :
        call[r].site = "known" => ListedHost(UrlHostname(req[r].url))

----------------------------------------------------------------------------
(* Properties of path-wildcard patterns                                     *)

\* C30: a pattern p/* matches a URL that parses only when its lower-cased
\* hostname+path equals p or lies under p/; a sibling path that merely
\* begins with the characters of p does not match
C30_PathWildcardNoSiblings ==
    /\ (Matched /\ UrlParses(match.url) /\ IsSuffix("/*", match.pattern)) =>
          LET full == toLowerCase(UrlHostname(match.url)) \o toLowerCase(UrlPathname(match.url))
              pat  == toLowerCase(match.pattern)
              p    == SubSeq(pat, 1, Len(pat) - 2)
          IN match.result <=> (full = p \/ IsPrefix(p \o "/", full))
    /\ MatchExample("https://arxiv.org/htmlfoo", "arxiv.org/html/*", FALSE)

====
